---------------------------- MODULE Spec2Model ----------------------------
(***************************************************************************)
(* A model of the jobworkerp MCP proxy (proxy-server/src/jobworkerp.rs):   *)
(* the name codec, the JSON argument shaping, the call_tool dispatch of    *)
(* JobworkerpRouter and the Job Engine calls it makes.                     *)
(*                                                                         *)
(* Strings are sequences of one-character strings, so that splitting,      *)
(* joining and JSON serialisation are computed character by character.     *)
(***************************************************************************)
EXTENDS Integers, Sequences, FiniteSets, TLC

(***************************************************************************)
(* Bounds of the model.                                                    *)
(***************************************************************************)
\* longest server / tool name drawn for the combine-then-divide round trip
MaxPartLen == 3
\* longest combined name drawn for divide_names alone
MaxNameLen == 7
\* call_tool invocations one session makes
MaxCalls == 2

(***************************************************************************)
(* Option values (Rust's Option<T>).                                       *)
(***************************************************************************)
None == [some |-> FALSE]
Some(x) == [some |-> TRUE, v |-> x]
IsSome(o) == o.some

(***************************************************************************)
(* Strings.                                                                *)
(***************************************************************************)
Alphabet == {"a", "_"}

\* every string over Alphabet of length at most n
Strs(n) == UNION {[1..k -> Alphabet] : k \in 0..n}

\* the text of s from position i to its end
From(s, i) == SubSeq(s, i, Len(s))

\* pattern d occurs in s starting at position i
OccursAt(s, d, i) == i >= 1 /\ i + Len(d) - 1 <= Len(s) /\ SubSeq(s, i, i + Len(d) - 1) = d

\* position of the leftmost occurrence of d in s, 0 when there is none
IndexOf(s, d) ==
    IF \E i \in 1..Len(s) : OccursAt(s, d, i)
    THEN CHOOSE i \in 1..Len(s) : OccursAt(s, d, i) /\ \A j \in 1..(i - 1) : ~OccursAt(s, d, j)
    ELSE 0

\* str::split(pattern): the pieces between the non-overlapping matches of d,
\* taken left to right; always at least one piece
RECURSIVE Split(_, _)
Split(s, d) ==
    LET i == IndexOf(s, d)
    IN  IF i = 0 THEN <<s>>
        ELSE <<SubSeq(s, 1, i - 1)>> \o Split(From(s, i + Len(d)), d)

\* Iterator::reduce(|acc, n| format!("{}{}{}", acc, d, n)), None on an empty iterator
RECURSIVE ReduceJoin(_, _)
ReduceJoin(v, d) ==
    IF Len(v) = 0 THEN None
    ELSE IF Len(v) = 1 THEN Some(v[1])
    ELSE ReduceJoin(<<v[1] \o d \o v[2]>> \o SubSeq(v, 3, Len(v)), d)

UnwrapOrDefault(o) == IF IsSome(o) THEN o.v ELSE <<>>

(***************************************************************************)
(* NameCodec: JobworkerpRouter::combine_names / divide_names.              *)
(***************************************************************************)
DELIMITER == <<"_", "_", "_">>

combine_names(server_name, tool_name) == server_name \o DELIMITER \o tool_name

\* a divide_names that cuts at the last separator instead of the first
divide_names_last(combined) ==
    LET v == Split(combined, DELIMITER)
        n == Len(v)
    IN  IF n < 2 THEN None
        ELSE Some(<<UnwrapOrDefault(ReduceJoin(SubSeq(v, 1, n - 1), DELIMITER)), v[n]>>)

divide_names(combined) ==
    LET v == Split(combined, DELIMITER)
    IN  IF Len(v) < 2 THEN None
        ELSE IF Len(v) = 2 THEN Some(<<v[1], v[2]>>)
        ELSE Some(<<v[1], UnwrapOrDefault(ReduceJoin(Tail(v), DELIMITER))>>)

\* the names of spec section 8: "a___b___c", "a", "b___c", "a___b", "c"
Name_a == <<"a">>
Name_b_c == <<"b", "_", "_", "_", "c">>
Name_a_b == <<"a", "_", "_", "_", "b">>
Name_c == <<"c">>
Name_a_b_c == <<"a", "_", "_", "_", "b", "_", "_", "_", "c">>

(***************************************************************************)
(* Text used by the gateway and by the requests of the model.              *)
(***************************************************************************)
K_arg_json == <<"a", "r", "g", "_", "j", "s", "o", "n">>
K_arguments == <<"a", "r", "g", "u", "m", "e", "n", "t", "s">>
K_city == <<"c", "i", "t", "y">>
K_document == <<"d", "o", "c", "u", "m", "e", "n", "t">>
K_input == <<"i", "n", "p", "u", "t">>
K_json_data == <<"j", "s", "o", "n", "_", "d", "a", "t", "a">>
K_name == <<"n", "a", "m", "e">>
K_settings == <<"s", "e", "t", "t", "i", "n", "g", "s">>
K_status == <<"s", "t", "a", "t", "u", "s">>
K_summary == <<"s", "u", "m", "m", "a", "r", "y">>
K_text == <<"t", "e", "x", "t">>
K_tool_name == <<"t", "o", "o", "l", "_", "n", "a", "m", "e">>
K_workflow_data == <<"w", "o", "r", "k", "f", "l", "o", "w", "_", "d", "a", "t", "a">>
K_properties == <<"p", "r", "o", "p", "e", "r", "t", "i", "e", "s">>
K_type == <<"t", "y", "p", "e">>

\* the keys above in the order a serde_json Map (a BTreeMap) iterates them
KnownKeys ==
    <<K_arg_json, K_arguments, K_city, K_document, K_input, K_json_data, K_name,
      K_properties, K_settings, K_status, K_summary, K_text, K_tool_name, K_type,
      K_workflow_data>>

Str_echo == <<"e", "c", "h", "o">>
Str_weather == <<"w", "e", "a", "t", "h", "e", "r">>
Str_forecast == <<"f", "o", "r", "e", "c", "a", "s", "t">>
Str_make_workflow == <<"m", "a", "k", "e", "_", "w", "o", "r", "k", "f", "l", "o", "w">>
Str_wf1 == <<"w", "f", "1">>
Str_w1 == <<"w", "1">>
Str_unknown_tool == <<"u", "n", "k", "n", "o", "w", "n", "_", "t", "o", "o", "l">>
Str_hi == <<"h", "i">>
Str_Tokyo == <<"T", "o", "k", "y", "o">>
Str_ok == <<"o", "k">>
Str_demo == <<"d", "e", "m", "o">>
Str_workflow == <<"w", "o", "r", "k", "f", "l", "o", "w">>
Str_null == <<"n", "u", "l", "l">>
Str_result == <<"r", "e", "s", "u", "l", "t">>
Str_object == <<"o", "b", "j", "e", "c", "t">>

(***************************************************************************)
(* JSON values (serde_json::Value).  An object holds a function from its   *)
(* keys to its values, so two objects with the same entries are equal.     *)
(***************************************************************************)
JNull == [k |-> "null"]
JStr(s) == [k |-> "str", s |-> s]
JNum(n) == [k |-> "num", n |-> n]
JObj(m) == [k |-> "obj", m |-> m]

EmptyMap == <<>>
IsObject(v) == v.k = "obj"
IsString(v) == v.k = "str"
IsEmptyMap(m) == DOMAIN m = {}

\* Map::get
MapGet(m, key) == IF key \in DOMAIN m THEN Some(m[key]) ELSE None
\* the map left by Map::remove(key)
MapRemove(m, key) == [x \in (DOMAIN m) \ {key} |-> m[x]]
\* Value::get(key): None unless the value is an object holding the key
ValueGet(v, key) == IF IsObject(v) THEN MapGet(v.m, key) ELSE None
\* Value::as_str
AsStr(v) == IF IsString(v) THEN Some(v.s) ELSE None
\* Option::and_then
AndThen(o, F(_)) == IF IsSome(o) THEN F(o.v) ELSE None
\* Option::unwrap_or
UnwrapOr(o, d) == IF IsSome(o) THEN o.v ELSE d
\* an Option<String> as a JSON value (json!(opt), serde_json::to_value(opt))
OptStrToJson(o) == IF IsSome(o) THEN JStr(o.v) ELSE JNull

\* a string's characters with '"' and '\' escaped, as serde_json writes them
RECURSIVE Escape(_)
Escape(s) ==
    IF s = <<>> THEN <<>>
    ELSE (IF s[1] \in {"\"", "\\"} THEN <<"\\", s[1]>> ELSE <<s[1]>>) \o Escape(Tail(s))

Quote(s) == <<"\"">> \o Escape(s) \o <<"\"">>

\* the keys of m in iteration order
KeysOf(m) == SelectSeq(KnownKeys, LAMBDA key : key \in DOMAIN m)

\* serde_json::to_string / Value::to_string: compact JSON text
RECURSIVE to_string(_)
RECURSIVE SerEntries(_, _)
to_string(v) ==
    CASE v.k = "null" -> Str_null
      [] v.k = "str" -> Quote(v.s)
      [] v.k = "num" -> <<ToString(v.n)>>
      [] v.k = "obj" -> <<"{">> \o SerEntries(v.m, KeysOf(v.m)) \o <<"}">>
SerEntries(m, ks) ==
    IF ks = <<>> THEN <<>>
    ELSE Quote(ks[1]) \o <<":">> \o to_string(m[ks[1]])
         \o (IF Len(ks) > 1 THEN <<",">> ELSE <<>>) \o SerEntries(m, Tail(ks))

(***************************************************************************)
(* The arguments of the requests of the model.                             *)
(***************************************************************************)
\* {"text":"hi"}
Obj_text_hi == JObj(K_text :> JStr(Str_hi))
\* {"arguments":{"text":"hi"}}: spec section 8, scenario A
Args_echo == K_arguments :> Obj_text_hi
\* {"arguments":{"text":"hi"},"settings":{"name":"demo"}}
Args_echo_settings == (K_arguments :> Obj_text_hi) @@ (K_settings :> JObj(K_name :> JStr(Str_demo)))
\* {"city":"Tokyo"}: spec section 8, scenario B
Args_city == K_city :> JStr(Str_Tokyo)
\* {"document":{"name":"wf1"}}: spec section 8, scenario C
Args_wf1 == K_document :> JObj(K_name :> JStr(Str_wf1))
\* {"document":{"name":"wf1","summary":"demo"}}: another document of the same name
Args_wf1_summary == K_document :> JObj((K_name :> JStr(Str_wf1)) @@ (K_summary :> JStr(Str_demo)))
\* {"arguments":"{\"document\":{\"name\":\"wf1\"}}"}: the document as JSON text
Args_wf1_text == K_arguments :> JStr(to_string(JObj(Args_wf1)))
\* {"document":{"name":{"text":"hi"}}}: a name that is no string
Args_name_object == K_document :> JObj(K_name :> Obj_text_hi)
\* {"document":"hi"}: a document that is no object
Args_document_text == K_document :> JStr(Str_hi)
\* {"workflow_data":"name: wf1"}: a YAML mapping that is no JSON
Args_yaml == K_workflow_data :> JStr(K_name \o <<":", " ">> \o Str_wf1)

\* {"type":"object"}: the schema of the tests (tests/jobworkerp_tools.rs)
Schema_object == K_type :> JStr(Str_object)

\* the JSON documents a string of the model can hold
JsonDocs ==
    {JObj(Args_wf1), JObj(Args_wf1_summary), JObj(EmptyMap), JStr(Str_hi), JNull,
     JObj(Schema_object)}

(***************************************************************************)
(* ArgumentNormalizer: parse_as_json_and_string_with_key_or_noop and       *)
(* parse_arguments_for_reusable_workflow.                                  *)
(***************************************************************************)
\* serde_json::from_str::<Value>: the document whose text s is; None is Err
from_str_json(s) ==
    IF \E v \in JsonDocs : to_string(v) = s
    THEN Some(CHOOSE v \in JsonDocs : to_string(v) = s)
    ELSE None

\* serde_yaml::from_str::<Value> on the texts of the model: a one-line block
\* mapping "key: value" is an object, an unterminated flow mapping is an
\* error, any other text is a plain scalar
from_str_yaml(s) ==
    LET i == IndexOf(s, <<":", " ">>)
    IN  IF i > 1 /\ s[1] /= "{"
        THEN Some(JObj(SubSeq(s, 1, i - 1) :> JStr(From(s, i + 2))))
        ELSE IF s /= <<>> /\ s[1] = "{" /\ s[Len(s)] /= "}" THEN None
        ELSE Some(JStr(s))

\* from_str as JSON, or_else as YAML
from_str_json_or_yaml(s) ==
    IF IsSome(from_str_json(s)) THEN from_str_json(s) ELSE from_str_yaml(s)

\* a normalizer that answers a value it cannot use with an empty container
parse_as_json_and_string_with_key_or_empty(key, value) ==
    IF key \in DOMAIN value
    THEN LET candidate_value == value[key]
         IN  IF IsObject(candidate_value) /\ ~IsEmptyMap(candidate_value.m)
             THEN candidate_value.m
             ELSE EmptyMap
    ELSE value

\* Result<Map>: the function never returns Err
parse_as_json_and_string_with_key_or_noop(key, value) ==
    IF key \in DOMAIN value
    THEN LET candidate_value == value[key]
             removed == MapRemove(value, key)
         IN  IF IsObject(candidate_value) /\ ~IsEmptyMap(candidate_value.m)
             THEN candidate_value.m
             ELSE IF IsString(candidate_value)
             THEN IF candidate_value.s /= <<>>
                  THEN LET parsed == from_str_json_or_yaml(candidate_value.s)
                       IN  IF IsSome(parsed) /\ IsObject(parsed.v) /\ ~IsEmptyMap(parsed.v.m)
                           THEN parsed.v.m
                           ELSE removed
                  ELSE removed
             ELSE removed
    ELSE value

parse_arguments_for_reusable_workflow(arguments) ==
    parse_as_json_and_string_with_key_or_noop(K_workflow_data,
        parse_as_json_and_string_with_key_or_noop(K_settings,
            parse_as_json_and_string_with_key_or_noop(K_arguments, arguments)))

(***************************************************************************)
(* The Job Engine's catalog: Runner {id, data} and WorkerData.             *)
(***************************************************************************)
\* JobworkerpRouter::DEFAULT_TIMEOUT_SEC, 60 * 60
DEFAULT_TIMEOUT_SEC == 3600

Runner(id, name, runner_type, proto) ==
    [id |-> Some([value |-> id]),
     data |-> Some([name |-> name, runner_type |-> runner_type, runner_settings_proto |-> proto])]

\* Runner { id: Option<RunnerId>, data: Option<RunnerData> } as the lookup
\* answers it: whole, or with a field absent
RunnerAnswer(runner, shape) ==
    IF shape = "no_id" THEN [runner EXCEPT !.id = None]
    ELSE IF shape = "no_data" THEN [runner EXCEPT !.data = None]
    ELSE runner

\* WorkerData { name, runner_id, .. } of a worker that exists before any call
Worker(name, runner_id) ==
    [name |-> name, description |-> <<>>, runner_id |-> Some([value |-> runner_id]),
     runner_settings |-> <<>>, channel |-> None, response_type |-> "NoResult",
     broadcast_results |-> FALSE]

Str_weather_forecast == combine_names(Str_weather, Str_forecast)
Str_echo_forecast == combine_names(Str_echo, Str_forecast)
Str_w1_forecast == combine_names(Str_w1, Str_forecast)
Str_make_workflow_forecast == combine_names(Str_make_workflow, Str_forecast)

R_echo == Runner(1, Str_echo, "Command", "empty")
R_weather == Runner(2, Str_weather, "McpServer", "empty")
\* a worker bound to a negative runner id is a reusable workflow (jobworkerp.rs:415)
R_make_workflow == Runner(-1, Str_make_workflow, "ReusableWorkflow", "valid")
\* a standard runner whose own name holds the separator
R_literal == Runner(3, Str_weather_forecast, "Command", "empty")

W_w1 == Worker(Str_w1, 1)
\* a worker whose own name is "echo___forecast"
W_literal == Worker(Str_echo_forecast, 1)

RunnerCatalogs ==
    {{R_echo, R_weather, R_make_workflow}, {R_echo, R_weather, R_make_workflow, R_literal}, {}}
\* a worker "w1" that is a reusable workflow instance
W_w1_workflow == Worker(Str_w1, -1)
\* a worker that carries the name of the runner "echo"
W_echo == Worker(Str_echo, 1)

WorkerCatalogs == {<<W_w1, W_literal>>, <<W_w1>>, <<W_w1_workflow, W_echo>>}

\* how many workers of the store carry the name
CountNamed(ws, name) == Cardinality({i \in 1..Len(ws) : ws[i].name = name})

(***************************************************************************)
(* The Job Engine client surface, at its interface (spec section 6).       *)
(***************************************************************************)
\* findRunnerByName: Ok(Some(runner)) or Ok(None)
find_runner_by_name(rs, name) ==
    IF \E r \in rs : IsSome(r.data) /\ r.data.v.name = name
    THEN Some(CHOOSE r \in rs : IsSome(r.data) /\ r.data.v.name = name)
    ELSE None

\* findWorkerByName: the data of the worker of that name
find_worker_by_name(ws, name) ==
    IF \E i \in 1..Len(ws) : ws[i].name = name
    THEN Some(ws[CHOOSE i \in 1..Len(ws) : ws[i].name = name /\ \A j \in 1..(i - 1) : ws[j].name /= name])
    ELSE None

\* findOrCreateWorker, one step of the Job Engine, idempotent on the name:
\* the worker of that name if there is one, else the worker it creates
find_or_create_worker(ws, data) ==
    LET existing == find_worker_by_name(ws, data.name)
    IN  IF IsSome(existing)
        THEN [workers |-> ws, worker |-> existing.v]
        ELSE [workers |-> Append(ws, data), worker |-> data]

\* encodeSettings(descriptor, json) -> bytes, a pure function outside the gateway
json_value_to_message(settings) == [encoded |-> settings]

\* the result a job returns
JobOutput == JObj(K_text :> JStr(Str_result))

(***************************************************************************)
(* Requests and results of call_tool.                                      *)
(***************************************************************************)
Names ==
    {Str_echo, Str_weather, Str_weather_forecast, Str_echo_forecast, Str_make_workflow,
     Str_w1, Str_w1_forecast, Str_unknown_tool, Str_make_workflow_forecast}

ArgumentMaps ==
    {EmptyMap, Args_echo, Args_echo_settings, Args_city, Args_wf1, Args_wf1_summary,
     Args_wf1_text, Args_yaml, Args_name_object, Args_document_text}

\* CallToolRequestParam { name, arguments: Option<Map> }
Pool == {[name |-> n, arguments |-> a] : n \in Names, a \in {None} \cup {Some(m) : m \in ArgumentMaps}}

\* the requests two sessions send at the same time
RacePool ==
    {[name |-> Str_make_workflow, arguments |-> Some(m)] : m \in {Args_wf1, Args_wf1_summary}}
    \cup {[name |-> Str_w1, arguments |-> Some(Args_echo)]}

NoRequest == [name |-> <<>>, arguments |-> None]
NoResult == [t |-> "none"]
NoTarget == [kind |-> "none"]

\* CallToolResult { content: vec![Content::json(v)], is_error: None }
Success(v) == [t |-> "ok", content |-> v]
\* the acknowledgment of a workflow creation, {"status":"ok"}
Ack == Success(JObj(K_status :> JStr(Str_ok)))
\* McpError::method_not_found, invalid_params, internal_error
MethodNotFound == [t |-> "err", code |-> "method_not_found"]
InvalidParams == [t |-> "err", code |-> "invalid_params"]
InternalError(prefix, e) == [t |-> "err", code |-> "internal_error", message |-> <<prefix, e>>]

(***************************************************************************)
(* The gateway's handlers, up to the Job Engine call each one awaits.  A   *)
(* step is what a handler leaves behind: where the invocation continues,   *)
(* the call it is about to make, or the result it returns.                 *)
(***************************************************************************)
Done(res, failed) == [pc |-> "done", target |-> NoTarget, result |-> res, fault |-> failed]
Await(at, tgt) == [pc |-> at, target |-> tgt, result |-> NoResult, fault |-> FALSE]

\* a handler that names every workflow worker after the runner
workflow_name_of_runner(arguments, runner_data) == runner_data.name

\* handle_reusable_workflow: document.name, or the runner's own name
workflow_name(arguments, runner_data) ==
    UnwrapOr(
        AndThen(AndThen(MapGet(arguments, K_document), LAMBDA d : ValueGet(d, K_name)), AsStr),
        runner_data.name)

\* a handler that gives every workflow worker an empty description
workflow_description_empty(arguments) == <<>>

\* handle_reusable_workflow: document.summary, or empty
workflow_description(arguments) ==
    UnwrapOrDefault(
        AndThen(AndThen(MapGet(arguments, K_document), LAMBDA d : ValueGet(d, K_summary)), AsStr))

\* create_workflow: {"json_data": workflow_definition.to_string()}
workflow_settings(workflow_definition) ==
    JObj(K_json_data :> JStr(to_string(workflow_definition)))

\* a create_workflow that leaves channel, response type and broadcasting at
\* the defaults of WorkerData
workflow_worker_data_default(runner_id, workflow_name_, workflow_description_, runner_settings) ==
    [name |-> workflow_name_, description |-> workflow_description_,
     runner_id |-> Some(runner_id), runner_settings |-> runner_settings,
     channel |-> None, response_type |-> "NoResult",
     broadcast_results |-> FALSE]

\* create_workflow: the WorkerData handed to find_or_create_worker
workflow_worker_data(runner_id, workflow_name_, workflow_description_, runner_settings) ==
    [name |-> workflow_name_, description |-> workflow_description_,
     runner_id |-> Some(runner_id), runner_settings |-> runner_settings,
     channel |-> Some(Str_workflow), response_type |-> "Direct",
     broadcast_results |-> TRUE]

\* create_workflow up to find_or_create_worker; enc is what encoding the
\* settings against the runner's descriptor gives ("ok" or "err")
create_workflow(runner_id, runner_data, name, description, workflow_definition, enc) ==
    LET settings == workflow_settings(workflow_definition)
        proto == runner_data.runner_settings_proto
    IN  IF proto = "invalid"
        THEN Done(InternalError("Failed to create workflow", "descriptor"), TRUE)
        ELSE IF proto = "valid" /\ enc = "err"
        THEN Done(InternalError("Failed to create workflow", "encode"), TRUE)
        ELSE Await("create_workflow",
                   [kind |-> "workflow",
                    data |-> workflow_worker_data(runner_id, name, description,
                                IF proto = "valid" THEN json_value_to_message(settings) ELSE <<>>)])

handle_reusable_workflow(request, runner_id, runner_data, enc) ==
    LET arguments == AndThen(request.arguments,
                             LAMBDA a : Some(parse_arguments_for_reusable_workflow(a)))
    IN  IF IsSome(arguments)
        THEN create_workflow(runner_id, runner_data,
                             workflow_name(arguments.v, runner_data),
                             workflow_description(arguments.v), JObj(arguments.v), enc)
        ELSE Done(InvalidParams, FALSE)

\* a handler that serialises the "arguments" member only for a tool server
runner_call_arguments_inner(request_args, runner, tool_name_opt) ==
    IF IsSome(runner.data) /\ runner.data.v.runner_type = "McpServer"
    THEN Some(JObj((K_tool_name :> OptStrToJson(tool_name_opt))
                   @@ (K_arg_json :> JStr(to_string(UnwrapOr(MapGet(request_args, K_arguments), JNull))))))
    ELSE MapGet(request_args, K_arguments)

\* a handler that hands a standard runner the whole argument object
runner_call_arguments_whole(request_args, runner, tool_name_opt) ==
    IF IsSome(runner.data) /\ runner.data.v.runner_type = "McpServer"
    THEN Some(JObj((K_tool_name :> OptStrToJson(tool_name_opt))
                   @@ (K_arg_json :> JStr(to_string(JObj(request_args))))))
    ELSE Some(JObj(request_args))

\* a handler that wraps the arguments for every runner reached with a suffix
runner_call_arguments_suffix_any(request_args, runner, tool_name_opt) ==
    IF IsSome(tool_name_opt)
       \/ (IsSome(runner.data) /\ runner.data.v.runner_type = "McpServer")
    THEN Some(JObj((K_tool_name :> OptStrToJson(tool_name_opt))
                   @@ (K_arg_json :> JStr(to_string(JObj(request_args))))))
    ELSE MapGet(request_args, K_arguments)

\* handle_runner_call: the payload of the enqueue
runner_call_arguments(request_args, runner, tool_name_opt) ==
    IF IsSome(runner.data) /\ runner.data.v.runner_type = "McpServer"
    THEN Some(JObj((K_tool_name :> OptStrToJson(tool_name_opt))
                   @@ (K_arg_json :> JStr(to_string(JObj(request_args))))))
    ELSE MapGet(request_args, K_arguments)

\* handle_runner_call up to setup_worker_and_enqueue_with_json; unwrap() on
\* a runner without data aborts the task
handle_runner_call(request, runner, tool_name_opt) ==
    LET request_args == UnwrapOr(request.arguments, EmptyMap)
        settings == MapGet(request_args, K_settings)
        arguments == runner_call_arguments(request_args, runner, tool_name_opt)
    IN  IF ~IsSome(runner.data)
        THEN [pc |-> "panicked", target |-> NoTarget, result |-> NoResult, fault |-> FALSE]
        ELSE Await("enqueue_runner",
                   [kind |-> "runner", runner_name |-> runner.data.v.name,
                    tool |-> tool_name_opt, settings |-> settings,
                    arguments |-> UnwrapOr(arguments, JNull)])

\* a handler that looks at the federated-tool suffix before the runner id
worker_call_arguments_suffix_first(request_args, worker_data, tool_name_opt) ==
    LET args == UnwrapOr(MapGet(request_args, K_arguments), JNull)
    IN  IF IsSome(tool_name_opt)
        THEN JObj((K_tool_name :> JStr(tool_name_opt.v)) @@ (K_arg_json :> args))
        ELSE IF IsSome(worker_data.runner_id) /\ worker_data.runner_id.v.value < 0
        THEN JObj(K_input :> JStr(to_string(args)))
        ELSE args

\* handle_worker_call: the payload of the enqueue
worker_call_arguments(request_args, worker_data, tool_name_opt) ==
    LET args == UnwrapOr(MapGet(request_args, K_arguments), JNull)
    IN  IF IsSome(worker_data.runner_id) /\ worker_data.runner_id.v.value < 0
        THEN JObj(K_input :> JStr(to_string(args)))
        ELSE IF IsSome(tool_name_opt)
        THEN JObj((K_tool_name :> JStr(tool_name_opt.v)) @@ (K_arg_json :> args))
        ELSE args

\* handle_worker_call from the worker found up to enqueue_with_json
handle_worker_call(request, worker_data, tool_name_opt) ==
    Await("enqueue_worker",
          [kind |-> "worker", worker_data |-> worker_data, tool |-> tool_name_opt,
           arguments |-> worker_call_arguments(UnwrapOr(request.arguments, EmptyMap),
                                               worker_data, tool_name_opt)])

\* a call_tool that goes on to the workers when a standard runner was found
\* by the server name
call_tool_runner_fallthrough(request, runner, tool_name_opt, enc) ==
    IF IsSome(runner.id) /\ IsSome(runner.data)
       /\ runner.data.v.runner_type = "ReusableWorkflow"
    THEN handle_reusable_workflow(request, runner.id.v, runner.data.v, enc)
    ELSE IF IsSome(tool_name_opt) /\ IsSome(runner.data) /\ runner.data.v.runner_type /= "McpServer"
    THEN Await("find_worker", NoTarget)
    ELSE handle_runner_call(request, runner, tool_name_opt)

\* a call_tool that asks the workers first when a Runner carries the very
\* name of the request
call_tool_runner_workers_first(request, runner, tool_name_opt, enc) ==
    IF ~IsSome(tool_name_opt)
    THEN Await("find_worker", NoTarget)
    ELSE IF IsSome(runner.id) /\ IsSome(runner.data)
            /\ runner.data.v.runner_type = "ReusableWorkflow"
    THEN handle_reusable_workflow(request, runner.id.v, runner.data.v, enc)
    ELSE handle_runner_call(request, runner, tool_name_opt)

\* call_tool's match on a Runner found by find_runner_by_name_with_mcp
call_tool_runner(request, runner, tool_name_opt, enc) ==
    IF IsSome(runner.id) /\ IsSome(runner.data)
       /\ runner.data.v.runner_type = "ReusableWorkflow"
    THEN handle_reusable_workflow(request, runner.id.v, runner.data.v, enc)
    ELSE handle_runner_call(request, runner, tool_name_opt)

\* a resolver that never asks for the runner named by the prefix
runner_exact_miss_skip(divided) == Await("find_worker", NoTarget)

\* a call_tool that reports a failed worker lookup as an internal error
worker_lookup_failed_internal == Done(InternalError("Failed to find worker", "unavailable"), TRUE)

\* call_tool: Err(e) from find_runner_by_name_with_mcp
runner_lookup_failed == Done(MethodNotFound, TRUE)

\* handle_worker_call: map_err on find_worker_by_name_with_mcp
worker_lookup_failed == Done(MethodNotFound, TRUE)

\* find_runner_by_name_with_mcp after Ok(None) for the exact name: the lookup
\* by the server name when the name divides, else Ok(None) and the worker path
runner_exact_miss(divided) ==
    IF IsSome(divided) THEN Await("find_runner_mcp", NoTarget) ELSE Await("find_worker", NoTarget)

\* a handler that reports a missing worker as an internal error
worker_not_found_internal == Done(InternalError("Failed to find worker", "none"), FALSE)

\* handle_worker_call: Ok(None) from the worker lookups, ok_or_else
worker_not_found == Done(MethodNotFound, FALSE)

\* find_worker_by_name_with_mcp after Ok(None) for the exact name
worker_exact_miss(divided) ==
    IF IsSome(divided) THEN Await("find_worker_mcp", NoTarget) ELSE worker_not_found

\* the message of a Job Engine error other than NotFound
Str_unavailable == "unavailable"

\* a handler that reports every failed enqueue as an internal error
enqueue_result_internal(out) ==
    IF out = "ok" THEN Success(JobOutput)
    ELSE InternalError("Failed to enqueue job", Str_unavailable)

\* the enqueue's result as call_tool returns it: Ok(v), NotFound, any other error
enqueue_result(out) ==
    IF out = "ok" THEN Success(JobOutput)
    ELSE IF out = "not_found" THEN MethodNotFound
    ELSE InternalError("Failed to enqueue job", Str_unavailable)

\* a handler that acknowledges only the worker it created itself
create_workflow_result_created_only(out, worker, data) ==
    IF out = "ok" /\ worker = data
    THEN Ack
    ELSE InternalError("Failed to create workflow", "exists")

\* find_or_create_worker's result as call_tool returns it: Ok(worker), whether
\* the worker was created or found, is the acknowledgment
create_workflow_result(out, worker, data) ==
    IF out = "ok" THEN Ack ELSE InternalError("Failed to create workflow", "unavailable")

(***************************************************************************)
(* State.                                                                  *)
(***************************************************************************)
VARIABLES
    \* the codec exercised on its own
    cmode,      \* "pair": combine cs and ct, then divide; "name": divide cname
    cs, ct,     \* a server name and a tool name
    cname,      \* a combined name
    cres,       \* what divide_names returned for cname
    cstep,      \* "init", "combined", "divided"
    \* the normalizer exercised on its own
    nkey,       \* the key looked at
    nvalue,     \* the container handed in
    nres,       \* the Result the normalizer returned
    nstep,      \* "init", "parsed"
    \* list_tools
    set_name,   \* the function set the router is configured with, if any
    functions,  \* the FunctionSpecs the Job Engine holds for the listing
    lstep,      \* "init", "listed"
    lanswer,    \* how the Job Engine answered the catalog query
    lres,       \* the Result list_tools returned
    \* boot_sse_server
    acceptor,   \* the loop: "accepting", "serving" (in serve(transport)), "stopped"
    sess,       \* each session: "none", "init", "live", "handshake_failed",
                \* "failed", "closed", "dropped"
    served,     \* requests each session has served
    cancelled,  \* the cancellation tokens that are cancelled
    signalled,  \* ctrl-c was received
    returned,   \* what boot_sse_server returned
    logged,     \* failed accepts logged
    session_scope,  \* where serve(transport) takes a session's token from
    \* the two implementations side by side
    ecase,      \* the operation compared and its input
    erouter,    \* what JobworkerpRouter gives
    eother,     \* what ToolConverter or JobworkerpRepository gives
    \* the Job Engine
    runners,    \* the registered runners, immutable
    workers,    \* the worker store, in creation order
    \* the gateway's sessions, each serving one call_tool at a time
    mode,       \* "seq": one session; "race": two sessions at once; "partial":
                \* one session, the lookup may answer a Runner without id or data
    pc,         \* where each session's invocation stands
    req,        \* the request of the invocation
    target,     \* the Job Engine call the invocation is about to make
    lookups,    \* the catalog lookups the invocation has made, in order
    sent,       \* the enqueue and find-or-create calls the invocation has made,
                \* each enqueue with the Job Engine's answer
    result,     \* what the invocation returned
    calls,      \* invocations started so far
    \* history
    fault,      \* a Job Engine call or the settings encoding failed in the invocation
    acks,       \* per request, the workflow creations acknowledged so far
    overlap     \* the invocation's find-or-create was pending while the other
                \* session's find-or-create of the same name was served

codecVars == <<cmode, cs, ct, cname, cres, cstep>>
normVars == <<nkey, nvalue, nres, nstep>>
listVars == <<set_name, functions, lstep, lanswer, lres>>
serverVars == <<acceptor, sess, served, cancelled, signalled, returned, logged, session_scope>>
equivVars == <<ecase, erouter, eother>>
engineVars == <<runners, workers>>
sessionVars == <<mode, pc, req, target, lookups, sent, result, calls>>
historyVars == <<fault, acks, overlap>>
mainVars == <<engineVars, sessionVars, historyVars>>
vars == <<codecVars, normVars, listVars, serverVars, equivVars, mainVars>>

\* what the codec, the normalizer and call_tool each leave alone
nonCodecVars == <<normVars, listVars, serverVars, equivVars, mainVars>>
nonNormVars == <<codecVars, listVars, serverVars, equivVars, mainVars>>
nonListVars == <<codecVars, normVars, serverVars, equivVars, mainVars>>
nonServerVars == <<codecVars, normVars, listVars, equivVars, mainVars>>
nonEquivVars == <<codecVars, normVars, listVars, serverVars, mainVars>>
nonMainVars == <<codecVars, normVars, listVars, serverVars, equivVars>>

Sessions == {"s1", "s2"}
Other(s) == CHOOSE o \in Sessions : o /= s

\* no comparison is made
EquivIdle ==
    /\ ecase = [kind |-> "off"]
    /\ erouter = None
    /\ eother = None

\* no call_tool is served
MainIdle ==
    /\ runners = {}
    /\ workers = <<>>
    /\ mode = "off"
    /\ pc = [s \in Sessions |-> "idle"]
    /\ req = [s \in Sessions |-> NoRequest]
    /\ target = [s \in Sessions |-> NoTarget]
    /\ lookups = [s \in Sessions |-> <<>>]
    /\ sent = [s \in Sessions |-> <<>>]
    /\ result = [s \in Sessions |-> NoResult]
    /\ calls = [s \in Sessions |-> 0]
    /\ fault = [s \in Sessions |-> FALSE]
    /\ acks = <<>>
    /\ overlap = [s \in Sessions |-> FALSE]

(***************************************************************************)
(* boot_sse_server: the acceptor loop, the sessions it starts and the      *)
(* cancellation tokens.                                                    *)
(***************************************************************************)
\* transports the acceptor is offered, requests a session serves, failed accepts
MaxSessions == 3
MaxRequests == 1
MaxAcceptFailures == 1

SessionIds == 1..MaxSessions

\* CancellationToken::new() in SseServerConfig, its child_token() held by the
\* loop, and the token of each session
RootToken == "root"
ChildToken == "ct"
SessionToken(k) == <<"session", k>>

\* the tokens below a token: the loop's token never has a child of its own;
\* a session's token is made by serve(transport), outside this crate, either
\* fresh or below the root
Descendants(tok, scope) ==
    IF tok = RootToken
    THEN {ChildToken} \cup (IF scope = "root"
                            THEN {SessionToken(k) : k \in SessionIds}
                            ELSE {})
    ELSE {}

\* CancellationToken::cancel: the token and everything below it
cancel(tok, scope, already) == already \cup {tok} \cup Descendants(tok, scope)

\* a loop that ends on the first error of an accept or a handshake
on_serve_error_break == "stopped"

\* the loop after Err(e) from the accept or the handshake: logged, next round
on_serve_error == "accepting"

\* the loop after Ok(_r): the running service is let go, next round
on_serve_ok == "accepting"

\* a loop that spawns the handshake and goes on accepting
on_next_transport_spawn == "accepting"

\* the loop after next_transport() gave a transport: inside the same future
\* it awaits service.serve(transport)
on_next_transport == "serving"

\* no server is run
ServerIdle ==
    /\ acceptor = "off"
    /\ sess = [k \in SessionIds |-> "none"]
    /\ served = [k \in SessionIds |-> 0]
    /\ cancelled = {}
    /\ signalled = FALSE
    /\ returned = None
    /\ logged = 0
    /\ session_scope = "fresh"

\* no list_tools is served
ListIdle ==
    /\ set_name = None
    /\ functions = <<>>
    /\ lstep = "off"
    /\ lanswer = "none"
    /\ lres = None

\* the normalizer is not exercised
NormIdle ==
    /\ nkey = <<>>
    /\ nvalue = EmptyMap
    /\ nres = None
    /\ nstep = "off"

(***************************************************************************)
(* The codec on its own: every server/tool pair is combined and divided    *)
(* again, and every name is divided.                                       *)
(***************************************************************************)
CodecInit ==
    /\ cres = None
    /\ cstep = "init"
    /\ \/ /\ cmode = "pair"
          /\ cs \in Strs(MaxPartLen)
          /\ ct \in Strs(MaxPartLen)
          /\ cname = <<>>
       \/ /\ cmode = "name"
          /\ cs = <<>>
          /\ ct = <<>>
          /\ cname \in Strs(MaxNameLen) \cup {Name_a_b_c}
    /\ NormIdle
    /\ ListIdle
    /\ ServerIdle
    /\ EquivIdle
    /\ MainIdle

CodecIdle ==
    /\ cmode = "off"
    /\ cs = <<>>
    /\ ct = <<>>
    /\ cname = <<>>
    /\ cres = None
    /\ cstep = "init"

CombineNames ==
    /\ cmode = "pair"
    /\ cstep = "init"
    /\ cname' = combine_names(cs, ct)
    /\ cstep' = "combined"
    /\ UNCHANGED <<cmode, cs, ct, cres, nonCodecVars>>

DivideNames ==
    /\ \/ cmode = "pair" /\ cstep = "combined"
       \/ cmode = "name" /\ cstep = "init"
    /\ cres' = divide_names(cname)
    /\ cstep' = "divided"
    /\ UNCHANGED <<cmode, cs, ct, cname, nonCodecVars>>

CodecNext == CombineNames \/ DivideNames

SpecCodec == CodecInit /\ [][CodecNext]_vars

(***************************************************************************)
(* The normalizer on its own: one key looked at in one container.          *)
(***************************************************************************)
\* text that is neither JSON nor YAML
Str_unterminated == <<"{", "a">>
\* the text of the empty object
Str_empty_object == <<"{", "}">>

\* values the normalizer cannot use: an empty object, an empty string, a
\* number, null, and text that gives no non-empty object
UnusableValues ==
    {JObj(EmptyMap), JStr(<<>>), JNum(7), JNull, JStr(Str_unterminated), JStr(Str_hi),
     JStr(Str_empty_object)}

\* values holding a non-empty object: as an object, as JSON text, as YAML text
UsableValues ==
    {JObj(Args_wf1), JStr(to_string(JObj(Args_wf1))), JStr(K_name \o <<":", " ">> \o Str_wf1)}

NormKeys == {K_arguments, K_settings, K_workflow_data}

\* the containers: every choice of values under "arguments" and "name"
NormContainers ==
    UNION {[ks -> UnusableValues \cup UsableValues] : ks \in SUBSET {K_arguments, K_name}}

\* {"name":"demo"}
Obj_name_demo == JObj(K_name :> JStr(Str_demo))

\* what an argument object holds under one of the three keys: objects, an
\* object that has the three keys itself, JSON text, a number
WrapperValues ==
    {Obj_text_hi, Obj_name_demo, JObj(Args_wf1), JObj(Args_echo_settings),
     JStr(to_string(JObj(Args_wf1_summary))), JNum(7)}

\* the argument objects of a workflow creation: every choice of values under
\* "arguments", "settings" and "workflow_data"
WrapperContainers == UNION {[ks -> WrapperValues] : ks \in SUBSET NormKeys}

NormInit ==
    /\ nkey \in NormKeys
    /\ nvalue \in NormContainers \cup WrapperContainers
    /\ nres = None
    /\ nstep = "init"
    /\ CodecIdle
    /\ ListIdle
    /\ ServerIdle
    /\ EquivIdle
    /\ MainIdle

ParseAsJsonAndStringWithKeyOrNoop ==
    /\ nstep = "init"
    /\ nres' = Some(parse_as_json_and_string_with_key_or_noop(nkey, nvalue))
    /\ nstep' = "parsed"
    /\ UNCHANGED <<nkey, nvalue, nonNormVars>>

\* parse_arguments_for_reusable_workflow on the container
ParseArgumentsForReusableWorkflow ==
    /\ nstep = "init"
    /\ nres' = Some(parse_arguments_for_reusable_workflow(nvalue))
    /\ nstep' = "normalized"
    /\ UNCHANGED <<nkey, nvalue, nonNormVars>>

NormNext ==
    \/ ParseAsJsonAndStringWithKeyOrNoop
    \/ ParseArgumentsForReusableWorkflow

SpecNormalizer == NormInit /\ [][NormNext]_vars

(***************************************************************************)
(* list_tools: the catalog query and the projection of each FunctionSpecs  *)
(* to the tools it contributes.                                            *)
(***************************************************************************)
\* the number of FunctionSpecs of a listing
MaxFunctions == 2

\* CREATION_TOOL_DESCRIPTION (tool_conversion.rs), by its first words
CREATION_TOOL_DESCRIPTION == <<"C", "r", "e", "a", "t", "e", " ", "T", "o", "o", "l", "s">>

Str_desc == <<"d", "e", "s", "c">>
Str_descA == <<"d", "e", "s", "c", "A">>
Str_cmd1 == <<"c", "m", "d", "1">>
Str_cmd2 == <<"c", "m", "d", "2">>
Str_cmd3 == <<"c", "m", "d", "3">>
Str_workflow1 == <<"w", "o", "r", "k", "f", "l", "o", "w", "1">>
Str_server1 == <<"s", "e", "r", "v", "e", "r", "1">>
Str_server2 == <<"s", "e", "r", "v", "e", "r", "2">>
Str_server3 == <<"s", "e", "r", "v", "e", "r", "3">>
Str_toolA == <<"t", "o", "o", "l", "A">>
Str_toolB == <<"t", "o", "o", "l", "B">>

\* the text of {"type":"object"}
Txt_object == to_string(JObj(Schema_object))

\* function_specs::Schema
SingleSchema(settings, arguments) == [k |-> "single", settings |-> settings, arguments |-> arguments]
McpTools(list) == [k |-> "mcp", list |-> list]
\* McpTool { name, description, input_schema }
McpTool(name, description, input_schema) ==
    [name |-> name, description |-> description, input_schema |-> input_schema]

\* FunctionSpecs { runner_type, worker_id, name, description, schema }
FunctionSpecs(runner_type, worker_id, name, description, schema) ==
    [runner_type |-> runner_type, worker_id |-> worker_id, name |-> name,
     description |-> description, schema |-> schema]

\* rmcp Tool::new(name, description, input_schema)
Tool(name, description, input_schema) ==
    [name |-> name, description |-> description, input_schema |-> input_schema]

\* a standard runner with both schemas (tests/jobworkerp_tools.rs, cmd1)
F_cmd1 ==
    FunctionSpecs("Command", None, Str_cmd1, Str_desc,
                  Some(SingleSchema(Some(Txt_object), Txt_object)))
\* a standard runner whose arguments schema is no JSON
F_cmd2 ==
    FunctionSpecs("Command", None, Str_cmd2, Str_desc,
                  Some(SingleSchema(None, Str_unterminated)))
\* a standard runner without a schema
F_cmd3 == FunctionSpecs("Command", None, Str_cmd3, Str_desc, None)
\* a worker whose arguments schema is no JSON
F_w1 ==
    FunctionSpecs("Command", Some(1), Str_w1, Str_desc,
                  Some(SingleSchema(Some(Txt_object), Str_unterminated)))
\* a reusable workflow runner (tests/jobworkerp_tools.rs, workflow1)
F_workflow1 ==
    FunctionSpecs("ReusableWorkflow", None, Str_workflow1, Str_desc,
                  Some(SingleSchema(Some(Txt_object), Txt_object)))
\* a worker instance of a reusable workflow
F_wf1 ==
    FunctionSpecs("ReusableWorkflow", Some(2), Str_wf1, Str_demo,
                  Some(SingleSchema(None, Txt_object)))
\* a tool server with two federated tools, the second without a description
\* and with an input schema that is no JSON
F_server1 ==
    FunctionSpecs("McpServer", None, Str_server1, Str_desc,
                  Some(McpTools(<<McpTool(Str_toolA, Some(Str_descA), Txt_object),
                                  McpTool(Str_toolB, None, Str_unterminated)>>)))
\* a tool server without a federated tool list
F_server2 == FunctionSpecs("McpServer", None, Str_server2, Str_desc, None)
\* a tool server carrying a settings/arguments schema instead
F_server3 ==
    FunctionSpecs("McpServer", None, Str_server3, Str_desc,
                  Some(SingleSchema(None, Txt_object)))

FunctionPool ==
    {F_cmd1, F_cmd2, F_cmd3, F_w1, F_workflow1, F_wf1, F_server1, F_server2, F_server3}

\* the listings the Job Engine can answer with
FunctionLists == UNION {[1..n -> FunctionPool] : n \in 0..MaxFunctions}

\* Value::as_object().cloned().unwrap_or_default() on unwrap_or(json!({}))
as_object_or_default(parsed) ==
    IF IsSome(parsed) /\ IsObject(parsed.v) THEN parsed.v.m ELSE EmptyMap

\* SchemaCombiner::new
SchemaCombiner_new == <<>>

\* SchemaCombiner::add_schema_from_string: Err when the text is no JSON,
\* else the schema is kept under the key
add_schema_from_string(combiner, key, schema_text) ==
    LET parsed == from_str_json(schema_text)
    IN  IF IsSome(parsed)
        THEN [ok |-> TRUE, combiner |-> Append(combiner, [key |-> key, schema |-> parsed.v])]
        ELSE [ok |-> FALSE, combiner |-> combiner]

\* SchemaCombiner::generate_combined_schema: an object schema with one
\* property per schema kept; never an error
generate_combined_schema(combiner) ==
    Some((K_type :> JStr(Str_object))
         @@ (K_properties :>
                JObj([key \in {combiner[i].key : i \in 1..Len(combiner)} |->
                        (CHOOSE e \in {combiner[i] : i \in 1..Len(combiner)} : e.key = key).schema])))

\* list_tools, first branch: the creation tool of a reusable workflow runner
list_tools_reusable_workflow(tool) ==
    LET settings ==
            IF IsSome(tool.schema) /\ tool.schema.v.k = "single"
            THEN tool.schema.v.settings
            ELSE None
        parsed == IF IsSome(settings) THEN from_str_json_or_yaml(settings.v) ELSE None
    IN  <<Tool(tool.name, CREATION_TOOL_DESCRIPTION, as_object_or_default(parsed))>>

\* a projection that lists a tool server's federated tools under their own names
list_tools_mcp_server_bare(tool) ==
    IF IsSome(tool.schema) /\ tool.schema.v.k = "mcp"
    THEN [i \in 1..Len(tool.schema.v.list) |->
            LET mcp_tool == tool.schema.v.list[i]
            IN  Tool(mcp_tool.name, UnwrapOrDefault(mcp_tool.description),
                     as_object_or_default(from_str_json(mcp_tool.input_schema)))]
    ELSE <<>>

\* a projection that puts a placeholder for a tool server without a tool list
list_tools_mcp_server_placeholder(tool) ==
    IF IsSome(tool.schema) /\ tool.schema.v.k = "mcp"
    THEN [i \in 1..Len(tool.schema.v.list) |->
            LET mcp_tool == tool.schema.v.list[i]
            IN  Tool(combine_names(tool.name, mcp_tool.name),
                     UnwrapOrDefault(mcp_tool.description),
                     as_object_or_default(from_str_json(mcp_tool.input_schema)))]
    ELSE <<Tool(tool.name, tool.description, EmptyMap)>>

\* list_tools, second branch: one tool per federated tool of a tool server
list_tools_mcp_server(tool) ==
    IF IsSome(tool.schema) /\ tool.schema.v.k = "mcp"
    THEN [i \in 1..Len(tool.schema.v.list) |->
            LET mcp_tool == tool.schema.v.list[i]
            IN  Tool(combine_names(tool.name, mcp_tool.name),
                     UnwrapOrDefault(mcp_tool.description),
                     as_object_or_default(from_str_json(mcp_tool.input_schema)))]
    ELSE <<>>

\* list_tools, third branch: the combiner after the settings schema, if any
with_settings_schema(tool, combiner) ==
    IF IsSome(tool.schema) /\ tool.schema.v.k = "single" /\ IsSome(tool.schema.v.settings)
    THEN add_schema_from_string(combiner, K_settings, tool.schema.v.settings.v).combiner
    ELSE combiner

\* list_tools, third branch: the combiner after the arguments schema; a
\* federated tool list in this place counts as the empty text
with_arguments_schema(tool, combiner) ==
    IF IsSome(tool.schema)
    THEN add_schema_from_string(combiner, K_arguments,
            IF tool.schema.v.k = "single" THEN tool.schema.v.arguments ELSE <<>>).combiner
    ELSE combiner

\* list_tools, third branch: a standard runner or a worker
list_tools_normal_function(tool) ==
    LET schema_combiner ==
            with_arguments_schema(tool, with_settings_schema(tool, SchemaCombiner_new))
        schema == generate_combined_schema(schema_combiner)
    IN  IF IsSome(schema)
        THEN <<Tool(tool.name, tool.description, schema.v)>>
        ELSE <<>>

\* a projection that takes every reusable workflow entry for a creation tool
is_creation_tool_any_workflow(tool) == tool.runner_type = "ReusableWorkflow"

\* list_tools: tool.worker_id.is_none() && runner_type == ReusableWorkflow
is_creation_tool(tool) == ~IsSome(tool.worker_id) /\ tool.runner_type = "ReusableWorkflow"

\* list_tools: the closure of flat_map
list_tools_flat_map(tool) ==
    IF is_creation_tool(tool)
    THEN list_tools_reusable_workflow(tool)
    ELSE IF tool.runner_type = "McpServer"
    THEN list_tools_mcp_server(tool)
    ELSE list_tools_normal_function(tool)

\* functions.into_iter().flat_map(..).collect()
RECURSIVE FlatMapTools(_)
FlatMapTools(fs) ==
    IF fs = <<>> THEN <<>> ELSE list_tools_flat_map(Head(fs)) \o FlatMapTools(Tail(fs))

\* list_tools from the answer of the catalog query on
list_tools(answer, fs) ==
    IF answer = "err"
    THEN [ok |-> FALSE, error |-> InternalError("Failed to find tools", Str_unavailable)]
    ELSE [ok |-> TRUE, tools |-> FlatMapTools(fs), next_cursor |-> None]

ListInit ==
    /\ set_name \in {None, Some(Str_demo)}
    /\ functions \in FunctionLists
    /\ lstep = "init"
    /\ lanswer = "none"
    /\ lres = None
    /\ CodecIdle
    /\ NormIdle
    /\ ServerIdle
    /\ EquivIdle
    /\ MainIdle

\* list_tools with set_name: find_function_list_by_set answers
FindFunctionListBySet ==
    /\ lstep = "init"
    /\ IsSome(set_name)
    /\ \E answer \in {"ok", "err"} :
        /\ lanswer' = answer
        /\ lres' = Some(list_tools(answer, functions))
    /\ lstep' = "listed"
    /\ UNCHANGED <<set_name, functions, nonListVars>>

\* list_tools without set_name: find_function_list answers
FindFunctionList ==
    /\ lstep = "init"
    /\ ~IsSome(set_name)
    /\ \E answer \in {"ok", "err"} :
        /\ lanswer' = answer
        /\ lres' = Some(list_tools(answer, functions))
    /\ lstep' = "listed"
    /\ UNCHANGED <<set_name, functions, nonListVars>>

ListNext == FindFunctionListBySet \/ FindFunctionList

SpecList == ListInit /\ [][ListNext]_vars

(***************************************************************************)
(* boot_sse_server: the steps of the acceptor loop and of the sessions.    *)
(***************************************************************************)
ServerInit ==
    /\ acceptor = "accepting"
    /\ sess = [k \in SessionIds |-> "none"]
    /\ served = [k \in SessionIds |-> 0]
    /\ cancelled = {}
    /\ signalled = FALSE
    /\ returned = None
    /\ logged = 0
    /\ session_scope \in {"fresh", "root"}
    /\ EquivIdle
    /\ CodecIdle
    /\ NormIdle
    /\ ListIdle
    /\ MainIdle

\* the session in its serve handshake, if any
InHandshake == {k \in SessionIds : sess[k] = "init"}

\* next_transport() gives a transport: its handshake begins
NextTransport ==
    /\ acceptor = "accepting"
    /\ \E k \in SessionIds :
        /\ sess[k] = "none"
        /\ \A j \in 1..(k - 1) : sess[j] /= "none"
        /\ sess' = [sess EXCEPT ![k] = "init"]
    /\ acceptor' = on_next_transport
    /\ UNCHANGED <<served, cancelled, signalled, returned, logged, session_scope, nonServerVars>>

\* next_transport() gives None: "Failed to get transport" is logged
NextTransportFailed ==
    /\ acceptor = "accepting"
    /\ logged < MaxAcceptFailures
    /\ logged' = logged + 1
    /\ acceptor' = on_serve_error
    /\ UNCHANGED <<sess, served, cancelled, signalled, returned, session_scope, nonServerVars>>

\* serve(transport) returns Ok: the session runs as a task of its own
ServeOk ==
    /\ acceptor = "serving"
    /\ \E k \in InHandshake : sess' = [sess EXCEPT ![k] = "live"]
    /\ acceptor' = on_serve_ok
    /\ UNCHANGED <<served, cancelled, signalled, returned, logged, session_scope, nonServerVars>>

\* serve(transport) returns Err: logged
ServeFailed ==
    /\ acceptor = "serving"
    /\ \E k \in InHandshake : sess' = [sess EXCEPT ![k] = "handshake_failed"]
    /\ acceptor' = on_serve_error
    /\ UNCHANGED <<served, cancelled, signalled, returned, logged, session_scope, nonServerVars>>

\* ctrl_c() completes: ct.cancel(), break, Ok(()); a handshake under way is
\* dropped with its future
CtrlC ==
    /\ acceptor \in {"accepting", "serving"}
    /\ signalled' = TRUE
    /\ cancelled' = cancel(ChildToken, session_scope, cancelled)
    /\ sess' = [k \in SessionIds |-> IF sess[k] = "init" THEN "dropped" ELSE sess[k]]
    /\ acceptor' = "stopped"
    /\ returned' = Some("Ok")
    /\ UNCHANGED <<served, logged, session_scope, nonServerVars>>

\* a live session serves a request, unless its token is cancelled
SessionServes(k) ==
    /\ sess[k] = "live"
    /\ SessionToken(k) \notin cancelled
    /\ served[k] < MaxRequests
    /\ served' = [served EXCEPT ![k] = @ + 1]
    /\ UNCHANGED <<acceptor, sess, cancelled, signalled, returned, logged, session_scope,
                   nonServerVars>>

\* a live session's connection fails
SessionFails(k) ==
    /\ sess[k] = "live"
    /\ sess' = [sess EXCEPT ![k] = "failed"]
    /\ UNCHANGED <<acceptor, served, cancelled, signalled, returned, logged, session_scope,
                   nonServerVars>>

\* a live session's client closes the connection
SessionCloses(k) ==
    /\ sess[k] = "live"
    /\ sess' = [sess EXCEPT ![k] = "closed"]
    /\ UNCHANGED <<acceptor, served, cancelled, signalled, returned, logged, session_scope,
                   nonServerVars>>

ServerNext ==
    \/ NextTransport
    \/ NextTransportFailed
    \/ ServeOk
    \/ ServeFailed
    \/ CtrlC
    \/ \E k \in SessionIds : SessionServes(k)
    \/ \E k \in SessionIds : SessionFails(k)
    \/ \E k \in SessionIds : SessionCloses(k)

SpecServer == ServerInit /\ [][ServerNext]_vars

(***************************************************************************)
(* The second implementation of the core: ToolConverter                    *)
(* (tool_conversion.rs) and the argument preparation of                    *)
(* JobworkerpRepository (jobworkerp/repository.rs), set beside the         *)
(* router's on the same input.                                             *)
(***************************************************************************)
\* ToolConverter::DELIMITER
ToolConverter_DELIMITER == <<"_", "_", "_">>

\* CREATION_TOOL_DESCRIPTION of tool_conversion.rs, by its first words
ToolConverter_CREATION_TOOL_DESCRIPTION ==
    <<"C", "r", "e", "a", "t", "e", " ", "T", "o", "o", "l", "s">>

\* ToolConverter::combine_names
ToolConverter_combine_names(server_name, tool_name) ==
    server_name \o ToolConverter_DELIMITER \o tool_name

\* ToolConverter::divide_names
ToolConverter_divide_names(combined) ==
    LET delimiter == ToolConverter_DELIMITER
        v == Split(combined, delimiter)
    IN  IF Len(v) < 2 THEN None
        ELSE IF Len(v) = 2 THEN Some(<<v[1], v[2]>>)
        ELSE Some(<<Head(v), UnwrapOrDefault(ReduceJoin(Tail(v), delimiter))>>)

\* ToolConverter::convert_reusable_workflow: Option<Tool>, always Some
convert_reusable_workflow(tool) ==
    LET parsed ==
            IF ~IsSome(tool.schema) THEN None
            ELSE IF tool.schema.v.k = "single"
            THEN IF IsSome(tool.schema.v.settings)
                 THEN from_str_json_or_yaml(tool.schema.v.settings.v)
                 ELSE None
            ELSE None
    IN  Some(Tool(tool.name, ToolConverter_CREATION_TOOL_DESCRIPTION,
                  as_object_or_default(parsed)))

\* a converter that lists a tool server's federated tools under their own names
convert_mcp_server_bare(tool) ==
    IF IsSome(tool.schema) /\ tool.schema.v.k = "mcp"
    THEN [i \in 1..Len(tool.schema.v.list) |->
            Tool(tool.schema.v.list[i].name,
                 UnwrapOrDefault(tool.schema.v.list[i].description),
                 as_object_or_default(from_str_json(tool.schema.v.list[i].input_schema)))]
    ELSE <<>>

\* ToolConverter::convert_mcp_server
convert_mcp_server(tool) ==
    LET server_name == tool.name
    IN  IF IsSome(tool.schema) /\ tool.schema.v.k = "mcp"
        THEN [i \in 1..Len(tool.schema.v.list) |->
                Tool(ToolConverter_combine_names(server_name, tool.schema.v.list[i].name),
                     UnwrapOrDefault(tool.schema.v.list[i].description),
                     as_object_or_default(from_str_json(tool.schema.v.list[i].input_schema)))]
        ELSE IF IsSome(tool.schema) /\ tool.schema.v.k = "single"
        THEN <<>>
        ELSE <<>>

\* ToolConverter::convert_normal_function: None when the combiner fails
convert_normal_function(tool) ==
    LET settings ==
            IF IsSome(tool.schema) /\ tool.schema.v.k = "single"
            THEN tool.schema.v.settings
            ELSE None
        after_settings ==
            IF IsSome(settings)
            THEN add_schema_from_string(SchemaCombiner_new, K_settings, settings.v).combiner
            ELSE SchemaCombiner_new
        args ==
            IF ~IsSome(tool.schema) THEN None
            ELSE IF tool.schema.v.k = "single" THEN Some(tool.schema.v.arguments)
            ELSE Some(<<>>)
        after_arguments ==
            IF IsSome(args)
            THEN add_schema_from_string(after_settings, K_arguments, args.v).combiner
            ELSE after_settings
        schema == generate_combined_schema(after_arguments)
    IN  IF IsSome(schema)
        THEN Some(Tool(tool.name, tool.description, schema.v))
        ELSE None

\* Option::into_iter().collect::<Vec<_>>()
OptionToVec(o) == IF IsSome(o) THEN <<o.v>> ELSE <<>>

\* ToolConverter::convert_functions_to_mcp_tools: the closure of flat_map
convert_function(tool) ==
    IF ~IsSome(tool.worker_id) /\ tool.runner_type = "ReusableWorkflow"
    THEN OptionToVec(convert_reusable_workflow(tool))
    ELSE IF tool.runner_type = "McpServer"
    THEN convert_mcp_server(tool)
    ELSE OptionToVec(convert_normal_function(tool))

RECURSIVE ConvertAll(_)
ConvertAll(fs) ==
    IF fs = <<>> THEN <<>> ELSE convert_function(Head(fs)) \o ConvertAll(Tail(fs))

\* ToolConverter::convert_functions_to_mcp_tools
convert_functions_to_mcp_tools(fs) ==
    [ok |-> TRUE, tools |-> ConvertAll(fs), next_cursor |-> None]

\* JobworkerpRepository::prepare_runner_call_arguments: (settings, arguments)
prepare_runner_call_arguments(request_args, runner, tool_name_opt) ==
    LET settings == MapGet(request_args, K_settings)
        arguments ==
            IF IsSome(runner.data) /\ runner.data.v.runner_type = "McpServer"
            THEN JObj((K_tool_name :> OptStrToJson(tool_name_opt))
                      @@ (K_arg_json :> JStr(to_string(JObj(request_args)))))
            ELSE UnwrapOr(MapGet(request_args, K_arguments), JNull)
    IN  <<settings, arguments>>

\* JobworkerpRepository::prepare_worker_call_arguments
prepare_worker_call_arguments(request_args, worker_data, tool_name_opt) ==
    LET args == UnwrapOr(MapGet(request_args, K_arguments), JNull)
    IN  IF IsSome(worker_data.runner_id) /\ worker_data.runner_id.v.value < 0
        THEN JObj(K_input :> JStr(to_string(args)))
        ELSE IF IsSome(tool_name_opt)
        THEN JObj((K_tool_name :> JStr(tool_name_opt.v)) @@ (K_arg_json :> args))
        ELSE args

\* a reusable workflow runner that carries a federated tool list
F_workflow_mcp ==
    FunctionSpecs("ReusableWorkflow", None, Str_workflow1, Str_desc,
                  Some(McpTools(<<McpTool(Str_toolA, None, Txt_object)>>)))
\* a standard runner that carries a federated tool list
F_cmd_mcp ==
    FunctionSpecs("Command", None, Str_cmd1, Str_desc,
                  Some(McpTools(<<McpTool(Str_toolA, None, Txt_object)>>)))
\* a reusable workflow runner whose settings schema is YAML text
F_workflow_yaml ==
    FunctionSpecs("ReusableWorkflow", None, Str_workflow1, Str_desc,
                  Some(SingleSchema(Some(K_type \o <<":", " ">> \o Str_object), Txt_object)))

\* a worker without a runner id
W_unbound == [W_w1 EXCEPT !.runner_id = None]

\* the inputs the two implementations are given
EquivCases ==
    {[kind |-> "combine_names", server_name |-> a, tool_name |-> b] :
        a \in Strs(MaxPartLen), b \in Strs(MaxPartLen)}
    \cup {[kind |-> "divide_names", combined |-> n] : n \in Strs(MaxNameLen) \cup {Name_a_b_c}}
    \cup {[kind |-> "runner_call", request_args |-> m, runner |-> RunnerAnswer(r, shape),
           tool_name_opt |-> o] :
            m \in ArgumentMaps, r \in {R_echo, R_weather, R_make_workflow},
            shape \in {"whole", "no_id"}, o \in {None, Some(Str_forecast)}}
    \cup {[kind |-> "worker_call", request_args |-> m, worker_data |-> w, tool_name_opt |-> o] :
            m \in ArgumentMaps, w \in {W_w1, W_w1_workflow, W_unbound},
            o \in {None, Some(Str_forecast)}}
    \cup {[kind |-> "tools", functions |-> fs] :
            fs \in UNION {[1..n -> FunctionPool \cup {F_workflow_mcp, F_cmd_mcp, F_workflow_yaml}] :
                            n \in 0..MaxFunctions}}

\* the request handed to the router's handlers for an argument object
RequestOf(request_args) == [name |-> Str_echo, arguments |-> Some(request_args)]

\* what JobworkerpRouter computes for the case
RouterSide(c) ==
    IF c.kind = "combine_names" THEN combine_names(c.server_name, c.tool_name)
    ELSE IF c.kind = "divide_names" THEN divide_names(c.combined)
    ELSE IF c.kind = "runner_call"
    THEN LET call == handle_runner_call(RequestOf(c.request_args), c.runner, c.tool_name_opt).target
         IN  <<call.settings, call.arguments>>
    ELSE IF c.kind = "worker_call"
    THEN handle_worker_call(RequestOf(c.request_args), c.worker_data, c.tool_name_opt).target.arguments
    ELSE list_tools("ok", c.functions)

\* what ToolConverter or JobworkerpRepository computes for the case
OtherSide(c) ==
    IF c.kind = "combine_names" THEN ToolConverter_combine_names(c.server_name, c.tool_name)
    ELSE IF c.kind = "divide_names" THEN ToolConverter_divide_names(c.combined)
    ELSE IF c.kind = "runner_call"
    THEN prepare_runner_call_arguments(c.request_args, c.runner, c.tool_name_opt)
    ELSE IF c.kind = "worker_call"
    THEN prepare_worker_call_arguments(c.request_args, c.worker_data, c.tool_name_opt)
    ELSE convert_functions_to_mcp_tools(c.functions)

EquivInit ==
    /\ ecase \in EquivCases
    /\ erouter = None
    /\ eother = None
    /\ CodecIdle
    /\ NormIdle
    /\ ListIdle
    /\ ServerIdle
    /\ MainIdle

\* the router's implementation is run on the input
RunRouter ==
    /\ ecase.kind /= "off"
    /\ erouter = None
    /\ erouter' = Some(RouterSide(ecase))
    /\ UNCHANGED <<ecase, eother, nonEquivVars>>

\* the converter's or the repository's implementation is run on the input
RunOther ==
    /\ ecase.kind /= "off"
    /\ eother = None
    /\ eother' = Some(OtherSide(ecase))
    /\ UNCHANGED <<ecase, erouter, nonEquivVars>>

EquivNext == RunRouter \/ RunOther

SpecEquiv == EquivInit /\ [][EquivNext]_vars

(***************************************************************************)
(* call_tool.  Each action is one Job Engine call answered, together with  *)
(* everything the handler does up to its next call or its return.          *)
(***************************************************************************)
MainInit ==
    /\ CodecIdle
    /\ NormIdle
    /\ ListIdle
    /\ ServerIdle
    /\ EquivIdle
    /\ \/ /\ mode = "seq"
          /\ runners \in RunnerCatalogs
          /\ workers \in WorkerCatalogs
       \/ /\ mode = "race"
          /\ runners = {R_echo, R_weather, R_make_workflow}
          /\ workers = <<W_w1, W_literal>>
    /\ pc = [s \in Sessions |-> "idle"]
    /\ req = [s \in Sessions |-> NoRequest]
    /\ target = [s \in Sessions |-> NoTarget]
    /\ lookups = [s \in Sessions |-> <<>>]
    /\ sent = [s \in Sessions |-> <<>>]
    /\ result = [s \in Sessions |-> NoResult]
    /\ calls = [s \in Sessions |-> 0]
    /\ fault = [s \in Sessions |-> FALSE]
    /\ acks = <<>>
    /\ overlap = [s \in Sessions |-> FALSE]

\* the shapes of the answer
RunnerShapes == IF mode = "partial" THEN {"whole", "no_id", "no_data"} ELSE {"whole"}

\* a lookup as the invocation's log keeps it
Lookup(ns, how, key, res) == [ns |-> ns, how |-> how, key |-> key, res |-> res]

\* the session goes on as the step says, having made lookup lk
Continue(s, st, lk) ==
    /\ pc' = [pc EXCEPT ![s] = st.pc]
    /\ target' = [target EXCEPT ![s] = st.target]
    /\ result' = [result EXCEPT ![s] = st.result]
    /\ fault' = [fault EXCEPT ![s] = fault[s] \/ st.fault]
    /\ lookups' = [lookups EXCEPT ![s] = Append(@, lk)]

\* a request arrives on a session that serves none
CallTool(s) ==
    /\ pc[s] \in {"idle", "done"}
    /\ calls[s] < MaxCalls
    /\ \E r \in (IF mode = "race" THEN RacePool ELSE Pool) :
        req' = [req EXCEPT ![s] = r]
    /\ mode /= "race" => s = "s1"
    /\ pc' = [pc EXCEPT ![s] = "find_runner"]
    /\ target' = [target EXCEPT ![s] = NoTarget]
    /\ lookups' = [lookups EXCEPT ![s] = <<>>]
    /\ sent' = [sent EXCEPT ![s] = <<>>]
    /\ result' = [result EXCEPT ![s] = NoResult]
    /\ calls' = [calls EXCEPT ![s] = @ + 1]
    /\ fault' = [fault EXCEPT ![s] = FALSE]
    /\ overlap' = [overlap EXCEPT ![s] = FALSE]
    /\ UNCHANGED <<nonMainVars, engineVars, mode, acks>>

\* find_runner_by_name_with_mcp: the lookup by the exact name answers
FindRunnerByName(s) ==
    /\ pc[s] = "find_runner"
    /\ \E out \in {"ok", "err"}, enc \in {"ok", "err"}, shape \in RunnerShapes :
        LET name == req[s].name
            found == find_runner_by_name(runners, name)
            divided == divide_names(name)
        IN  IF out = "err"
            THEN Continue(s, runner_lookup_failed, Lookup("runner", "exact", name, "err"))
            ELSE IF IsSome(found)
            THEN Continue(s, call_tool_runner(req[s], RunnerAnswer(found.v, shape), None, enc),
                          Lookup("runner", "exact", name, "some"))
            ELSE Continue(s, runner_exact_miss(divided), Lookup("runner", "exact", name, "none"))
    /\ UNCHANGED <<nonMainVars, engineVars, mode, req, sent, calls, acks, overlap>>

\* find_runner_by_name_with_mcp: the lookup by the server name answers
FindRunnerByPrefix(s) ==
    /\ pc[s] = "find_runner_mcp"
    /\ \E out \in {"ok", "err"}, enc \in {"ok", "err"}, shape \in RunnerShapes :
        LET divided == divide_names(req[s].name)
            server_name == divided.v[1]
            tool_name == divided.v[2]
            found == find_runner_by_name(runners, server_name)
        IN  IF out = "err"
            THEN Continue(s, runner_lookup_failed,
                          Lookup("runner", "prefix", server_name, "err"))
            ELSE IF IsSome(found)
            THEN Continue(s, call_tool_runner(req[s], RunnerAnswer(found.v, shape),
                                              Some(tool_name), enc),
                          Lookup("runner", "prefix", server_name, "some"))
            ELSE Continue(s, Await("find_worker", NoTarget),
                          Lookup("runner", "prefix", server_name, "none"))
    /\ UNCHANGED <<nonMainVars, engineVars, mode, req, sent, calls, acks, overlap>>

\* create_workflow: find_or_create_worker answers
FindOrCreateWorker(s) ==
    /\ pc[s] = "create_workflow"
    /\ \E out \in {"ok", "err"} :
        LET data == target[s].data
            done == find_or_create_worker(workers, data)
            o == Other(s)
            both == out = "ok" /\ pc[o] = "create_workflow" /\ target[o].data.name = data.name
            res == create_workflow_result(out, done.worker, data)
        IN  /\ workers' = IF out = "ok" THEN done.workers ELSE workers
            /\ result' = [result EXCEPT ![s] = res]
            /\ fault' = [fault EXCEPT ![s] = fault[s] \/ out = "err"]
            /\ acks' = IF res /= Ack THEN acks
                       ELSE IF req[s] \in DOMAIN acks
                       THEN [acks EXCEPT ![req[s]] = @ + 1]
                       ELSE acks @@ (req[s] :> 1)
            /\ overlap' = IF both THEN [x \in Sessions |-> TRUE] ELSE overlap
            /\ sent' = [sent EXCEPT ![s] = Append(@, [op |-> "find_or_create_worker", data |-> data])]
    /\ pc' = [pc EXCEPT ![s] = "done"]
    /\ UNCHANGED <<nonMainVars, runners, mode, req, target, lookups, calls>>

\* handle_runner_call: setup_worker_and_enqueue_with_json answers
SetupWorkerAndEnqueue(s) ==
    /\ pc[s] = "enqueue_runner"
    /\ \E out \in {"ok", "not_found", "err"} :
        /\ result' = [result EXCEPT ![s] = enqueue_result(out)]
        /\ fault' = [fault EXCEPT ![s] = fault[s] \/ out /= "ok"]
        /\ sent' = [sent EXCEPT ![s] = Append(@,
                        [op |-> "setup_worker_and_enqueue_with_json",
                         runner_name |-> target[s].runner_name,
                         settings |-> target[s].settings,
                         arguments |-> target[s].arguments,
                         timeout_sec |-> DEFAULT_TIMEOUT_SEC,
                         answer |-> out])]
    /\ pc' = [pc EXCEPT ![s] = "done"]
    /\ UNCHANGED <<nonMainVars, engineVars, mode, req, target, lookups, calls, acks, overlap>>

\* handle_worker_call: the worker lookup by the exact name answers
FindWorkerByName(s) ==
    /\ pc[s] = "find_worker"
    /\ \E out \in {"ok", "err"} :
        LET name == req[s].name
            found == find_worker_by_name(workers, name)
            divided == divide_names(name)
        IN  IF out = "err"
            THEN Continue(s, worker_lookup_failed, Lookup("worker", "exact", name, "err"))
            ELSE IF IsSome(found)
            THEN Continue(s, handle_worker_call(req[s], found.v, None),
                          Lookup("worker", "exact", name, "some"))
            ELSE Continue(s, worker_exact_miss(divided), Lookup("worker", "exact", name, "none"))
    /\ UNCHANGED <<nonMainVars, engineVars, mode, req, sent, calls, acks, overlap>>

\* handle_worker_call: the worker lookup by the server name answers
FindWorkerByPrefix(s) ==
    /\ pc[s] = "find_worker_mcp"
    /\ \E out \in {"ok", "err"} :
        LET divided == divide_names(req[s].name)
            server_name == divided.v[1]
            tool_name == divided.v[2]
            found == find_worker_by_name(workers, server_name)
        IN  IF out = "err"
            THEN Continue(s, worker_lookup_failed,
                          Lookup("worker", "prefix", server_name, "err"))
            ELSE IF IsSome(found)
            THEN Continue(s, handle_worker_call(req[s], found.v, Some(tool_name)),
                          Lookup("worker", "prefix", server_name, "some"))
            ELSE Continue(s, worker_not_found, Lookup("worker", "prefix", server_name, "none"))
    /\ UNCHANGED <<nonMainVars, engineVars, mode, req, sent, calls, acks, overlap>>

\* handle_worker_call: enqueue_with_json answers
EnqueueWithJson(s) ==
    /\ pc[s] = "enqueue_worker"
    /\ \E out \in {"ok", "not_found", "err"} :
        /\ result' = [result EXCEPT ![s] = enqueue_result(out)]
        /\ fault' = [fault EXCEPT ![s] = fault[s] \/ out /= "ok"]
        /\ sent' = [sent EXCEPT ![s] = Append(@,
                        [op |-> "enqueue_with_json",
                         worker_data |-> target[s].worker_data,
                         arguments |-> target[s].arguments,
                         timeout_sec |-> DEFAULT_TIMEOUT_SEC,
                         answer |-> out])]
    /\ pc' = [pc EXCEPT ![s] = "done"]
    /\ UNCHANGED <<nonMainVars, engineVars, mode, req, target, lookups, calls, acks, overlap>>

Next ==
    \E s \in Sessions :
        \/ CallTool(s)
        \/ FindRunnerByName(s)
        \/ FindRunnerByPrefix(s)
        \/ FindOrCreateWorker(s)
        \/ SetupWorkerAndEnqueue(s)
        \/ FindWorkerByName(s)
        \/ FindWorkerByPrefix(s)
        \/ EnqueueWithJson(s)

Spec == MainInit /\ [][Next]_vars

\* call_tool against a Job Engine whose lookup may answer a Runner without
\* id or without data
ResolverInit ==
    /\ CodecIdle
    /\ NormIdle
    /\ ListIdle
    /\ ServerIdle
    /\ EquivIdle
    /\ mode = "partial"
    /\ runners = {R_echo, R_weather, R_make_workflow}
    /\ workers \in {<<W_w1>>, <<W_w1_workflow, W_echo>>}
    /\ pc = [s \in Sessions |-> "idle"]
    /\ req = [s \in Sessions |-> NoRequest]
    /\ target = [s \in Sessions |-> NoTarget]
    /\ lookups = [s \in Sessions |-> <<>>]
    /\ sent = [s \in Sessions |-> <<>>]
    /\ result = [s \in Sessions |-> NoResult]
    /\ calls = [s \in Sessions |-> 0]
    /\ fault = [s \in Sessions |-> FALSE]
    /\ acks = <<>>
    /\ overlap = [s \in Sessions |-> FALSE]

SpecResolver == ResolverInit /\ [][Next]_vars

\* the separator occurs somewhere in s
ContainsDelimiter(s) == \E i \in 1..Len(s) : OccursAt(s, DELIMITER, i)

(***************************************************************************)
(* What the claims speak of.                                               *)
(***************************************************************************)
\* the invocation has a request
Serving(s) == pc[s] /= "idle"

\* the lookup of the invocation that returned a match, if any
Matches(s) == {i \in 1..Len(lookups[s]) : lookups[s][i].res = "some"}
MatchedIn(s, ns) == \E i \in Matches(s) : lookups[s][i].ns = ns
Match(s) == lookups[s][CHOOSE i \in Matches(s) : TRUE]

\* the category of the Runner the invocation resolved to
MatchedRunnerType(s) ==
    (CHOOSE r \in runners : r.data.v.name = Match(s).key).data.v.runner_type

\* the invocation resolved to a Runner of that category
ResolvedToRunner(s, runner_type) ==
    Serving(s) /\ MatchedIn(s, "runner") /\ MatchedRunnerType(s) = runner_type

\* the federated-tool suffix of the invocation: the text after the first
\* separator when the match came from the lookup by the server name
Suffix(s) ==
    IF Match(s).how = "prefix"
    THEN JStr(From(req[s].name, Len(Match(s).key) + Len(DELIMITER) + 1))
    ELSE JNull

\* the incoming argument object, empty when the request carries none
Incoming(s) == IF IsSome(req[s].arguments) THEN req[s].arguments.v ELSE EmptyMap

\* the calls of a kind the invocation has made to the Job Engine
SentOps(s, op) == {i \in 1..Len(sent[s]) : sent[s][i].op = op}

\* position of a lookup in the order exact-name Runner, composite-prefix
\* Runner, exact-name Worker, composite-prefix Worker
Rank(lk) ==
    (IF lk.ns = "runner" THEN 0 ELSE 2) + (IF lk.how = "exact" THEN 1 ELSE 2)

\* the lookups that come before rank n for a name: the composite ones only
\* for a name that holds the separator
RanksBefore(name, n) ==
    {k \in 1..(n - 1) : k \in {1, 3} \/ ContainsDelimiter(name)}

(***************************************************************************)
(* C1: call_tool consults the catalog in the order exact-name Runner,      *)
(* composite-prefix Runner, exact-name Worker, composite-prefix Worker; a  *)
(* later lookup is made only after every earlier one returned no match,    *)
(* and the call is handled with the first match.  A Runner named by the    *)
(* prefix of "echo___forecast" wins over a Worker of that very name.       *)
(***************************************************************************)
C1_LookupOrder ==
    \A s \in Sessions :
        LET L == lookups[s]
            name == req[s].name
        IN  /\ \A j \in 1..Len(L) :
                \* every earlier lookup was made, in order, and found nothing
                /\ {Rank(L[i]) : i \in 1..(j - 1)} = RanksBefore(name, Rank(L[j]))
                /\ \A i \in 1..(j - 1) : L[i].res = "none" /\ Rank(L[i]) < Rank(L[j])
                \* exact lookups ask for the name, composite ones for its prefix
                /\ L[j].how = "exact" => L[j].key = name
                /\ L[j].how = "prefix" =>
                    /\ SubSeq(name, 1, Len(L[j].key) + Len(DELIMITER)) = L[j].key \o DELIMITER
                    /\ ~ContainsDelimiter(L[j].key \o <<"_", "_">>)
            \* the first match handles the call
            /\ \A j \in Matches(s) :
                /\ j = Len(L)
                /\ target[s].kind = "runner" => L[j].ns = "runner" /\ target[s].runner_name = L[j].key
                /\ target[s].kind = "workflow" => L[j].ns = "runner"
                /\ target[s].kind = "worker" =>
                    L[j].ns = "worker" /\ target[s].worker_data.name = L[j].key
                /\ L[j].ns = "worker" => target[s].kind = "worker"
            /\ target[s].kind /= "none" => Matches(s) /= {}
            /\ (name = Str_echo_forecast /\ R_echo \in runners /\ R_literal \notin runners
                /\ pc[s] = "done" /\ ~fault[s])
                => /\ Len(sent[s]) = 1
                   /\ sent[s][1].op = "setup_worker_and_enqueue_with_json"
                   /\ sent[s][1].runner_name = Str_echo

\* all four lookups were made in order, the last one matched a Worker
C1_Witness ==
    \E s \in Sessions :
        /\ pc[s] = "done"
        /\ req[s].name = Str_w1_forecast
        /\ Len(lookups[s]) = 4
        /\ lookups[s][4] = Lookup("worker", "prefix", Str_w1, "some")
        /\ Len(sent[s]) = 1

(***************************************************************************)
(* C2: a call is never resolved to both a Runner and a Worker.  Whenever a *)
(* Runner lookup, exact or composite, returned a match, the call is        *)
(* handled as a Runner target: the invocation makes no Worker lookup and   *)
(* no Worker enqueue.                                                      *)
(***************************************************************************)
C2_RunnerShortCircuits ==
    \A s \in Sessions :
        MatchedIn(s, "runner") =>
            /\ \A i \in 1..Len(lookups[s]) : lookups[s][i].ns = "runner"
            /\ SentOps(s, "enqueue_with_json") = {}
            /\ target[s].kind /= "worker"
            /\ pc[s] \notin {"find_worker", "find_worker_mcp", "enqueue_worker"}
            /\ pc[s] = "done" /\ ~fault[s] /\ MatchedRunnerType(s) /= "ReusableWorkflow" =>
                SentOps(s, "setup_worker_and_enqueue_with_json") = {1}

\* "echo___forecast" names a Worker outright, and the call went to Runner "echo"
C2_Witness ==
    \E s \in Sessions :
        /\ pc[s] = "done"
        /\ req[s].name = Str_echo_forecast
        /\ IsSome(find_worker_by_name(workers, Str_echo_forecast))
        /\ MatchedIn(s, "runner")
        /\ SentOps(s, "setup_worker_and_enqueue_with_json") = {1}

(***************************************************************************)
(* C3: when no Runner and no Worker carries the requested name or, for a   *)
(* composite name, its prefix, call_tool returns "method not found" and    *)
(* makes no enqueue and no find-or-create call.                            *)
(***************************************************************************)
\* the names call_tool can ask the catalog for
LookupKeys(name) ==
    {name} \cup (IF ContainsDelimiter(name)
                 THEN {SubSeq(name, 1, IndexOf(name, DELIMITER) - 1)}
                 ELSE {})

NothingMatches(s) ==
    /\ Serving(s)
    /\ \A r \in runners : r.data.v.name \notin LookupKeys(req[s].name)
    /\ \A i \in 1..Len(workers) : workers[i].name \notin LookupKeys(req[s].name)

C3_NoMatchIsMethodNotFound ==
    \A s \in Sessions :
        NothingMatches(s) =>
            /\ sent[s] = <<>>
            /\ target[s].kind = "none"
            /\ pc[s] \notin {"create_workflow", "enqueue_runner", "enqueue_worker"}
            /\ pc[s] = "done" => result[s] = MethodNotFound

\* a composite name went through all four lookups and none of them matched
C3_Witness ==
    \E s \in Sessions :
        /\ pc[s] = "done"
        /\ NothingMatches(s)
        /\ Len(lookups[s]) = 4
        /\ \A i \in 1..4 : lookups[s][i].res = "none"
        /\ result[s] = MethodNotFound
        /\ sent[s] = <<>>

(***************************************************************************)
(* C4: a call resolved to a Runner of category McpServer makes exactly one *)
(* enqueue, against that Runner, with the payload {"tool_name": the        *)
(* suffix, "arg_json": the JSON text of the whole incoming argument        *)
(* object}.  call_tool("weather___forecast", {"city":"Tokyo"}) enqueues    *)
(* against "weather" with tool_name "forecast" and arg_json                *)
(* "{\"city\":\"Tokyo\"}".                                                 *)
(***************************************************************************)
C4_McpServerPayload ==
    \A s \in Sessions :
        /\ ResolvedToRunner(s, "McpServer") =>
            /\ pc[s] \in {"enqueue_runner", "done"}
            /\ pc[s] = "done" =>
                /\ Len(sent[s]) = 1
                /\ sent[s][1].op = "setup_worker_and_enqueue_with_json"
                /\ sent[s][1].runner_name = Match(s).key
                /\ DOMAIN sent[s][1].arguments.m = {K_tool_name, K_arg_json}
                /\ sent[s][1].arguments.m[K_tool_name] = Suffix(s)
                /\ sent[s][1].arguments.m[K_arg_json] = JStr(to_string(JObj(Incoming(s))))
        /\ (/\ pc[s] = "done"
            /\ req[s] = [name |-> Str_weather_forecast, arguments |-> Some(Args_city)]
            /\ R_weather \in runners /\ R_literal \notin runners
            /\ lookups[s][Len(lookups[s])].res /= "err")
            => /\ Len(sent[s]) = 1
               /\ sent[s][1].runner_name = <<"w", "e", "a", "t", "h", "e", "r">>
               /\ sent[s][1].arguments =
                    JObj((K_tool_name :> JStr(<<"f", "o", "r", "e", "c", "a", "s", "t">>))
                         @@ (K_arg_json :> JStr(<<"{", "\"", "c", "i", "t", "y", "\"", ":",
                                                  "\"", "T", "o", "k", "y", "o", "\"", "}">>)))

\* the federated call of the example was enqueued
C4_Witness ==
    \E s \in Sessions :
        /\ pc[s] = "done"
        /\ req[s] = [name |-> Str_weather_forecast, arguments |-> Some(Args_city)]
        /\ ResolvedToRunner(s, "McpServer")
        /\ Match(s).how = "prefix"
        /\ Len(sent[s]) = 1

(***************************************************************************)
(* C5: a call resolved to a Runner that is neither a ReusableWorkflow nor  *)
(* an McpServer enqueues exactly the value under "arguments" of the        *)
(* incoming object, null when the key or the whole object is absent, and   *)
(* passes exactly the value under "settings" as the settings override,     *)
(* none when absent.  call_tool("echo", {"arguments":{"text":"hi"}})       *)
(* enqueues {"text":"hi"} with no settings override.                       *)
(***************************************************************************)
C5_StandardRunnerPayload ==
    \A s \in Sessions :
        /\ (ResolvedToRunner(s, "Command") /\ pc[s] = "done") =>
            /\ Len(sent[s]) = 1
            /\ sent[s][1].op = "setup_worker_and_enqueue_with_json"
            /\ sent[s][1].runner_name = Match(s).key
            /\ sent[s][1].arguments =
                (IF K_arguments \in DOMAIN Incoming(s) THEN Incoming(s)[K_arguments] ELSE JNull)
            /\ sent[s][1].settings =
                (IF K_settings \in DOMAIN Incoming(s) THEN Some(Incoming(s)[K_settings]) ELSE None)
        /\ (/\ pc[s] = "done"
            /\ req[s] = [name |-> Str_echo, arguments |-> Some(Args_echo)]
            /\ R_echo \in runners
            /\ lookups[s][Len(lookups[s])].res /= "err")
            => /\ Len(sent[s]) = 1
               /\ sent[s][1].runner_name = Str_echo
               /\ sent[s][1].arguments = JObj(K_text :> JStr(<<"h", "i">>))
               /\ sent[s][1].settings = None

\* a standard runner was handed both an "arguments" and a "settings" member
C5_Witness ==
    \E s \in Sessions :
        /\ pc[s] = "done"
        /\ req[s] = [name |-> Str_echo, arguments |-> Some(Args_echo_settings)]
        /\ ResolvedToRunner(s, "Command")
        /\ Len(sent[s]) = 1
        /\ sent[s][1].settings = Some(JObj(K_name :> JStr(Str_demo)))

(***************************************************************************)
(* C6: workflow provisioning is idempotent on the derived Worker name.     *)
(* With a Job Engine that answers, every invocation on the ReusableWorkflow*)
(* Runner returns the acknowledgment and exactly one Worker of the derived *)
(* name exists afterwards, however often the same document is sent; the    *)
(* derived name of a document whose document.name is "wf1" is "wf1".       *)
(***************************************************************************)
\* the requests whose workflow document is named "wf1"
NamesWf1(r) == r.arguments \in {Some(Args_wf1), Some(Args_wf1_summary), Some(Args_wf1_text)}

C6_ProvisioningIdempotent ==
    /\ \A s \in Sessions :
        (pc[s] = "done" /\ ResolvedToRunner(s, "ReusableWorkflow")
         /\ IsSome(req[s].arguments) /\ ~fault[s]) =>
            /\ result[s] = Ack
            /\ target[s].kind = "workflow"
            /\ CountNamed(workers, target[s].data.name) = 1
            /\ NamesWf1(req[s]) => target[s].data.name = Str_wf1
    /\ \A r \in DOMAIN acks :
        NamesWf1(r) => CountNamed(workers, Str_wf1) = 1
    /\ \A i, j \in 1..Len(workers) : workers[i].name = workers[j].name => i = j

\* the same request was acknowledged twice in a row and one Worker "wf1" exists
C6_Witness ==
    /\ mode = "seq"
    /\ \E r \in DOMAIN acks :
        /\ r.arguments = Some(Args_wf1)
        /\ acks[r] >= 2
    /\ CountNamed(workers, Str_wf1) = 1

(***************************************************************************)
(* C7: two sessions that provision a workflow of the same derived name at  *)
(* the same time, neither holding a lock, both end in the acknowledgment   *)
(* when the Job Engine answers them, in every interleaving, and at most    *)
(* one Worker of that name exists.                                         *)
(***************************************************************************)
C7_ConcurrentProvisioning ==
    \A s \in Sessions :
        overlap[s] =>
            /\ target[s].kind = "workflow"
            /\ CountNamed(workers, target[s].data.name) <= 1
            /\ (pc[s] = "done" /\ ~fault[s]) =>
                /\ result[s] = Ack
                /\ CountNamed(workers, target[s].data.name) = 1

\* both sessions had their find-or-create pending together, with different
\* documents of the same name, and both were acknowledged
C7_Witness ==
    /\ \A s \in Sessions : overlap[s] /\ pc[s] = "done" /\ result[s] = Ack
    /\ req["s1"].arguments = Some(Args_wf1)
    /\ req["s2"].arguments = Some(Args_wf1_summary)
    /\ CountNamed(workers, Str_wf1) = 1

(***************************************************************************)
(* C8: a call resolved to a ReusableWorkflow Runner whose arguments are    *)
(* absent or hold no extractable workflow definition, such as the empty    *)
(* object, returns the invalid-params error and makes no find-or-create    *)
(* call.                                                                   *)
(***************************************************************************)
C8_NoDefinitionIsInvalidParams ==
    \A s \in Sessions :
        (ResolvedToRunner(s, "ReusableWorkflow")
         /\ req[s].arguments \in {None, Some(EmptyMap)}) =>
            /\ pc[s] /= "create_workflow"
            /\ SentOps(s, "find_or_create_worker") = {}
            /\ pc[s] = "done" => result[s] = InvalidParams

(***************************************************************************)
(* C9: name round trip.  For all s and t that do not contain the separator *)
(* (strings that begin or end with underscores and empty strings           *)
(* included), divide_names(combine_names(s, t)) = Some((s, t)).            *)
(***************************************************************************)
C9_RoundTrip ==
    (cmode = "pair" /\ cstep = "divided" /\ ~ContainsDelimiter(cs) /\ ~ContainsDelimiter(ct))
        => cres = Some(<<cs, ct>>)

(***************************************************************************)
(* C10: divide_names splits at the first occurrence of the separator only. *)
(* A name without the separator gives None; a name with it gives the text  *)
(* before the first separator and the whole text after it (the remaining   *)
(* segments rejoined), so "a___b___c" gives ("a", "b___c") and never       *)
(* ("a___b", "c").                                                         *)
(***************************************************************************)
C10_DivideAtFirst ==
    cstep = "divided" =>
        /\ ~ContainsDelimiter(cname) => cres = None
        /\ ContainsDelimiter(cname) =>
            /\ IsSome(cres)
            /\ combine_names(cres.v[1], cres.v[2]) = cname
            /\ \A j \in 1..Len(cres.v[1]) : ~OccursAt(cname, DELIMITER, j)
        /\ cname = Name_a_b_c =>
            /\ cres = Some(<<Name_a, Name_b_c>>)
            /\ cres /= Some(<<Name_a_b, Name_c>>)

\* a name with two separators has been divided
C10_Witness ==
    /\ cstep = "divided"
    /\ cname = Name_a_b_c
    /\ IsSome(cres)


(***************************************************************************)
(* C19: for Runner and Worker targets alike, an enqueue is made once and   *)
(* its failure is returned as one protocol error: NotFound from the Job    *)
(* Engine becomes "method not found", any other error becomes an internal  *)
(* error carrying the Job Engine's message, and on success the enqueue's   *)
(* result is the content of the call.                                      *)
(***************************************************************************)
\* the enqueue calls of the invocation
Enqueues(s) == SentOps(s, "setup_worker_and_enqueue_with_json") \cup SentOps(s, "enqueue_with_json")

C19_EnqueueErrorMapping ==
    \A s \in Sessions :
        /\ Cardinality(Enqueues(s)) <= 1
        /\ \A i \in Enqueues(s) :
            /\ pc[s] = "done"
            /\ Len(sent[s]) = 1
            /\ sent[s][i].answer = "ok" => result[s] = [t |-> "ok", content |-> JobOutput]
            /\ sent[s][i].answer = "not_found" =>
                result[s] = [t |-> "err", code |-> "method_not_found"]
            /\ sent[s][i].answer = "err" =>
                /\ result[s].t = "err"
                /\ result[s].code = "internal_error"
                /\ result[s].message[2] = Str_unavailable

\* a Worker enqueue was answered NotFound and the other session's call failed
C19_Witness ==
    /\ mode = "race"
    /\ \E s \in Sessions :
        /\ pc[s] = "done"
        /\ SentOps(s, "enqueue_with_json") = {1}
        /\ sent[s][1].answer = "not_found"
        /\ result[s] = MethodNotFound
        /\ pc[Other(s)] = "done"
        /\ result[Other(s)].t = "err"

(***************************************************************************)
(* C20: a Job Engine error during any catalog lookup of a call, Runner or  *)
(* Worker, exact or composite, ends the call with "method not found", the  *)
(* response absence gives: no further lookup follows and nothing is        *)
(* enqueued.                                                               *)
(***************************************************************************)
C20_LookupErrorIsMethodNotFound ==
    \A s \in Sessions :
        \A i \in 1..Len(lookups[s]) :
            lookups[s][i].res = "err" =>
                /\ i = Len(lookups[s])
                /\ pc[s] = "done"
                /\ result[s] = MethodNotFound
                /\ sent[s] = <<>>
                /\ target[s].kind = "none"

\* the lookup of a Worker by the prefix failed after three lookups found nothing
C20_Witness ==
    \E s \in Sessions :
        /\ Len(lookups[s]) = 4
        /\ lookups[s][4].res = "err"
        /\ IsSome(find_worker_by_name(workers, lookups[s][4].key))
        /\ result[s] = MethodNotFound


(***************************************************************************)
(* C15: parse_as_json_and_string_with_key_or_noop is a no-op on absent or  *)
(* unusable input.  When the key is absent, or its value is an empty       *)
(* object, an empty string, a number, or text that gives no non-empty      *)
(* object as JSON or as YAML, the container returned holds exactly the     *)
(* original entries under every other key; the function never returns an   *)
(* error.                                                                  *)
(***************************************************************************)
C15_NoopOnUnusableInput ==
    nstep = "parsed" =>
        /\ IsSome(nres)
        /\ (nkey \notin DOMAIN nvalue) => nres.v = nvalue
        /\ (nkey \notin DOMAIN nvalue \/ nvalue[nkey] \in UnusableValues) =>
            /\ (DOMAIN nres.v) \ {nkey} = (DOMAIN nvalue) \ {nkey}
            /\ \A k \in (DOMAIN nvalue) \ {nkey} : nres.v[k] = nvalue[k]

\* text that is neither JSON nor YAML under the key, another entry beside it
C15_Witness ==
    /\ nstep = "parsed"
    /\ nkey = K_arguments
    /\ DOMAIN nvalue = {K_arguments, K_name}
    /\ nvalue[K_arguments] = JStr(Str_unterminated)
    /\ nres.v = (K_name :> nvalue[K_name])


(***************************************************************************)
(* What the claims on list_tools speak of.                                 *)
(***************************************************************************)
\* list_tools returned a tool list
Listed == lstep = "listed" /\ lres.v.ok

\* the tools the first n entries of the listing contribute, counted
ToolsBefore(n) == Len(FlatMapTools(SubSeq(functions, 1, n)))

\* the tools of the result that entry i of the listing contributed
Contribution(i) == SubSeq(lres.v.tools, ToolsBefore(i - 1) + 1, ToolsBefore(i))

\* a standard runner or a worker whose arguments schema is no JSON
MalformedArguments(f) ==
    /\ f.runner_type /= "McpServer"
    /\ ~(f.runner_type = "ReusableWorkflow" /\ f.worker_id = None)
    /\ f.schema /= None
    /\ f.schema.v.k = "single"
    /\ f.schema.v.arguments = Str_unterminated

\* a tool server entry without a federated tool list
BadMcpServer(f) ==
    /\ f.runner_type = "McpServer"
    /\ (f.schema = None \/ f.schema.v.k = "single")

\* an entry that is no tool server and whose schemas, where it has any, are JSON
ParsableFunction(f) ==
    /\ f.runner_type /= "McpServer"
    /\ f.schema /= None =>
        /\ f.schema.v.k = "single"
        /\ f.schema.v.settings \in {None, Some(Txt_object)}
        /\ f.schema.v.arguments = Txt_object

(***************************************************************************)
(* C11: a standard-runner or worker entry whose arguments schema text is   *)
(* malformed JSON contributes no tool to the list_tools output, while the  *)
(* other entries' tools still appear.                                      *)
(***************************************************************************)
C11_MalformedSchemaDropped ==
    Listed =>
        \A i \in 1..Len(functions) :
            /\ MalformedArguments(functions[i]) => Contribution(i) = <<>>
            /\ ParsableFunction(functions[i]) => Contribution(i) /= <<>>

(***************************************************************************)
(* C12: the listing is total over a bad entry.  A tool server entry with   *)
(* no federated tool list, or with a settings/arguments schema instead,    *)
(* contributes zero tools, and list_tools succeeds with the tools of all   *)
(* other entries unchanged and in catalog order; list_tools fails only     *)
(* when the catalog query fails.                                           *)
(***************************************************************************)
C12_ListingTotal ==
    lstep = "listed" =>
        /\ lres.v.ok <=> lanswer = "ok"
        /\ lres.v.ok =>
            /\ \A i \in 1..Len(functions) :
                BadMcpServer(functions[i]) => Contribution(i) = <<>>
            /\ lres.v.tools =
                FlatMapTools(SelectSeq(functions, LAMBDA f : ~BadMcpServer(f)))
        /\ ~lres.v.ok => lres.v.error.code = "internal_error"

\* a tool server with a single schema, then a standard runner: one tool
C12_Witness ==
    /\ Listed
    /\ functions = <<F_server3, F_cmd1>>
    /\ Len(lres.v.tools) = 1
    /\ lres.v.tools[1].name = Str_cmd1

(***************************************************************************)
(* C13: a tool server entry named S with k federated tools projects to     *)
(* exactly k tools, one per federated tool in list order, each named       *)
(* combine_names(S, tool name) and carrying the federated tool's           *)
(* description, or the empty one when it has none.                         *)
(***************************************************************************)
C13_McpServerExpansion ==
    Listed =>
        \A i \in 1..Len(functions) :
            LET f == functions[i]
            IN  (f.runner_type = "McpServer" /\ ~BadMcpServer(f)) =>
                    /\ Len(Contribution(i)) = Len(f.schema.v.list)
                    /\ \A j \in 1..Len(f.schema.v.list) :
                        /\ Contribution(i)[j].name =
                            f.name \o <<"_", "_", "_">> \o f.schema.v.list[j].name
                        /\ Contribution(i)[j].description =
                            (IF f.schema.v.list[j].description = None
                             THEN <<>>
                             ELSE f.schema.v.list[j].description.v)
                    /\ f = F_server1 =>
                        /\ Contribution(i)[1].name =
                            <<"s", "e", "r", "v", "e", "r", "1", "_", "_", "_",
                              "t", "o", "o", "l", "A">>
                        /\ Contribution(i)[2].description = <<>>

\* a standard runner, then a tool server with two federated tools
C13_Witness ==
    /\ Listed
    /\ functions = <<F_cmd1, F_server1>>
    /\ Len(lres.v.tools) = 3
    /\ lres.v.tools[3].name = combine_names(Str_server1, Str_toolB)

(***************************************************************************)
(* C14: every entry that is no tool server and whose schemas parse         *)
(* projects to exactly one tool named as the entry: a reusable workflow    *)
(* entry without a worker id becomes the creation tool with the fixed      *)
(* creation description, any other entry, a worker instance of a reusable  *)
(* workflow included, one tool with the entry's own description.           *)
(***************************************************************************)
C14_OneToolPerFunction ==
    Listed =>
        \A i \in 1..Len(functions) :
            LET f == functions[i]
            IN  ParsableFunction(f) =>
                    /\ Len(Contribution(i)) = 1
                    /\ Contribution(i)[1].name = f.name
                    /\ Contribution(i)[1].description =
                        (IF f.runner_type = "ReusableWorkflow" /\ f.worker_id = None
                         THEN CREATION_TOOL_DESCRIPTION
                         ELSE f.description)

\* a reusable workflow runner, then a worker instance of a reusable workflow
C14_Witness ==
    /\ Listed
    /\ functions = <<F_workflow1, F_wf1>>
    /\ lres.v.tools[1].description = CREATION_TOOL_DESCRIPTION
    /\ lres.v.tools[2].description = Str_demo


(***************************************************************************)
(* C16: in multi-session mode a session's failure or clean termination, a  *)
(* failed accept and a failed serve handshake included, changes neither    *)
(* the state of a sibling session nor the acceptor loop: the siblings keep *)
(* serving and the acceptor keeps accepting.                               *)
(***************************************************************************)
\* session k ends in this step
SessionEnds(k) ==
    /\ sess'[k] \in {"handshake_failed", "failed", "closed"}
    /\ sess'[k] /= sess[k]

\* a step in which a session ends or a failed accept is logged leaves the
\* other sessions and the loop as they are
EndsLeaveOthersAlone ==
    /\ \A k \in SessionIds :
        SessionEnds(k) =>
            /\ \A j \in SessionIds \ {k} : sess'[j] = sess[j] /\ served'[j] = served[j]
            /\ cancelled' = cancelled
            /\ returned' = returned
            /\ acceptor' = (IF sess[k] = "init" THEN "accepting" ELSE acceptor)
    /\ logged' /= logged =>
        /\ sess' = sess
        /\ served' = served
        /\ acceptor' = "accepting"
        /\ returned' = returned

C16_SessionsIndependent ==
    /\ [](\A j \in SessionIds :
            (sess[j] = "live" /\ served[j] < MaxRequests) => ENABLED SessionServes(j))
    /\ []((~signalled /\ acceptor = "accepting" /\ \E k \in SessionIds : sess[k] = "none")
            => ENABLED NextTransport)
    /\ [][EndsLeaveOthersAlone]_vars

\* after a failed accept and a failed handshake a later transport was taken,
\* and a sibling of a failed session has served a request
C16_Witness ==
    /\ logged = 1
    /\ sess[1] = "handshake_failed"
    /\ sess[2] = "failed"
    /\ sess[3] = "live"
    /\ served[3] = 1
    /\ acceptor = "accepting"

(***************************************************************************)
(* C17: once the shutdown signal is received, the cancellation that is     *)
(* triggered reaches the root cancellation scope: every session live at    *)
(* that moment observes it, and the acceptor stops accepting.              *)
(***************************************************************************)
C17_ShutdownReachesSessions ==
    signalled =>
        /\ acceptor = "stopped"
        /\ RootToken \in cancelled
        /\ \A k \in SessionIds : sess[k] = "live" => SessionToken(k) \in cancelled

(***************************************************************************)
(* C18: the acceptor loop ends only when the shutdown signal is received,  *)
(* a failed accept or handshake is logged and the loop goes on; after the  *)
(* signal the server stops accepting, drains the live sessions and         *)
(* boot_sse_server returns success.                                        *)
(***************************************************************************)
C18_LoopEndsOnSignalAndDrains ==
    /\ acceptor = "stopped" <=> signalled
    /\ signalled <=> returned = Some("Ok")
    /\ returned /= None => \A k \in SessionIds : sess[k] /= "live"

(***************************************************************************)
(* C24: no data is lost on a failure path of                               *)
(* parse_as_json_and_string_with_key_or_noop.  When the value under the    *)
(* key is present but cannot be unwrapped, the container returned is the   *)
(* container as it was handed in: it still holds the original value under  *)
(* the key, together with all other entries.                               *)
(***************************************************************************)
C24_FailureKeepsContainer ==
    (nstep = "parsed" /\ nkey \in DOMAIN nvalue /\ nvalue[nkey] \in UnusableValues) =>
        nres = Some(nvalue)

\* the object a value gives when it is unwrapped: a non-empty object, or
\* text that parses to one
Extract(v) ==
    IF IsObject(v) /\ ~IsEmptyMap(v.m) THEN Some(v.m)
    ELSE IF IsString(v) /\ v.s /= <<>>
              /\ IsSome(from_str_json_or_yaml(v.s))
              /\ IsObject(from_str_json_or_yaml(v.s).v)
              /\ ~IsEmptyMap(from_str_json_or_yaml(v.s).v.m)
    THEN Some(from_str_json_or_yaml(v.s).v.m)
    ELSE None

\* position of a key in the order "arguments", "settings", "workflow_data"
KeyOrder(k) == IF k = K_arguments THEN 1 ELSE IF k = K_settings THEN 2 ELSE 3

\* the keys of the three under which the container holds an extractable object
Extractable(m) == {k \in NormKeys \cap DOMAIN m : IsSome(Extract(m[k]))}

\* the latest of those keys
Latest(ks) == CHOOSE k \in ks : \A j \in ks : KeyOrder(j) <= KeyOrder(k)

(***************************************************************************)
(* C25: parse_arguments_for_reusable_workflow unwraps "arguments", then    *)
(* "settings", then "workflow_data", and later keys win: when the argument *)
(* object holds extractable non-empty objects under more than one of these *)
(* keys, the document is the object found under the latest of them.        *)
(***************************************************************************)
C25_LaterKeysWin ==
    (nstep = "normalized" /\ Cardinality(Extractable(nvalue)) > 1) =>
        nres = Extract(nvalue[Latest(Extractable(nvalue))])

\* the step takes a transport: a session's handshake begins
TakesTransport == \E k \in SessionIds : sess[k] = "none" /\ sess'[k] = "init"

(***************************************************************************)
(* C28: the acceptor handles transports one at a time up to the end of the *)
(* serve handshake.  At every moment at most one accepted transport is in  *)
(* session initialization, and the acceptor takes no further transport     *)
(* until serve(transport) for the previous one has returned or the         *)
(* shutdown signal has arrived.                                            *)
(***************************************************************************)
C28_OneHandshakeAtATime ==
    /\ [](Cardinality(InHandshake) <= 1)
    /\ [](InHandshake /= {} => ~ENABLED NextTransport)
    /\ [](signalled => ~ENABLED NextTransport)
    /\ [][TakesTransport => (InHandshake = {} /\ ~signalled)]_vars

\* the second transport is in its handshake while the first session is live
C28_Witness ==
    /\ sess[1] = "live"
    /\ sess[2] = "init"
    /\ acceptor = "serving"
    /\ ~signalled

\* the raw "arguments" value of the request, null when absent
RawArguments(s) ==
    IF K_arguments \in DOMAIN Incoming(s) THEN Incoming(s)[K_arguments] ELSE JNull

(***************************************************************************)
(* C21: for a Worker target the enqueue payload is chosen by strict        *)
(* priority from the raw "arguments" value (null when absent).  A Worker   *)
(* bound to a negative Runner id gets {"input": <arguments as text>}, even *)
(* when a federated-tool suffix is present; otherwise a suffix gives       *)
(* {"tool_name": <suffix>, "arg_json": <arguments>}; otherwise the raw     *)
(* arguments are passed unchanged.                                         *)
(***************************************************************************)
C21_WorkerPayloadPriority ==
    \A s \in Sessions :
        \A i \in SentOps(s, "enqueue_with_json") :
            LET e == sent[s][i]
                raw == RawArguments(s)
            IN  /\ MatchedIn(s, "worker")
                /\ e.arguments =
                    IF IsSome(e.worker_data.runner_id) /\ e.worker_data.runner_id.v.value < 0
                    THEN JObj(K_input :> JStr(to_string(raw)))
                    ELSE IF Match(s).how = "prefix"
                    THEN JObj((K_tool_name :> Suffix(s)) @@ (K_arg_json :> raw))
                    ELSE raw

\* "w1___forecast" reached the workflow instance "w1": the suffix is left out
C21_Witness ==
    /\ pc["s1"] = "done"
    /\ req["s1"].name = Str_w1_forecast
    /\ req["s1"].arguments = Some(Args_echo)
    /\ Len(sent["s1"]) = 1
    /\ sent["s1"][1].op = "enqueue_with_json"
    /\ sent["s1"][1].worker_data = W_w1_workflow
    /\ sent["s1"][1].arguments = JObj(K_input :> JStr(to_string(Obj_text_hi)))

\* the Runner the invocation resolved to
MatchedRunner(s) == CHOOSE r \in runners : r.data.v.name = Match(s).key

\* the invocation returned a protocol internal error
IsInternalError(res) == res.t = "err" /\ res.code = "internal_error"

(***************************************************************************)
(* C22: a call_tool that resolves to a ReusableWorkflow Runner never       *)
(* enqueues a job.  It issues at most one find-or-create, for a Worker     *)
(* bound to the resolved Runner id with channel "workflow", direct         *)
(* response delivery and result broadcasting enabled; it returns the fixed *)
(* {"status":"ok"} acknowledgment when that succeeds and a protocol        *)
(* internal error when the settings encoding or the find-or-create fails,  *)
(* with no find-or-create attempted after an encoding failure.             *)
(***************************************************************************)
C22_WorkflowNeverEnqueues ==
    \A s \in Sessions :
        ResolvedToRunner(s, "ReusableWorkflow") =>
            /\ Enqueues(s) = {}
            /\ Len(sent[s]) <= 1
            /\ \A i \in SentOps(s, "find_or_create_worker") :
                /\ sent[s][i].data.runner_id = MatchedRunner(s).id
                /\ sent[s][i].data.channel = Some(Str_workflow)
                /\ sent[s][i].data.response_type = "Direct"
                /\ sent[s][i].data.broadcast_results = TRUE
            /\ (pc[s] = "done" /\ sent[s] /= <<>> /\ ~fault[s]) => result[s] = Ack
            /\ (pc[s] = "done" /\ fault[s]) => IsInternalError(result[s])
            /\ (pc[s] = "done" /\ fault[s] /\ result[s].message[2] = "encode") => sent[s] = <<>>
            /\ result[s] = Ack => (sent[s] /= <<>> /\ ~fault[s])

\* "make_workflow" with a document: one find-or-create, acknowledged
C22_Witness ==
    /\ pc["s1"] = "done"
    /\ req["s1"] = [name |-> Str_make_workflow, arguments |-> Some(Args_wf1)]
    /\ Len(sent["s1"]) = 1
    /\ sent["s1"][1].op = "find_or_create_worker"
    /\ sent["s1"][1].data.channel = Some(Str_workflow)
    /\ result["s1"] = Ack

\* the workflow document of the invocation after normalization
NormalizedDocument(s) == parse_arguments_for_reusable_workflow(Incoming(s))

\* the string at document.<key> of the normalized document, if there is one
DocumentString(s, key) ==
    LET nd == NormalizedDocument(s)
    IN  IF K_document \in DOMAIN nd /\ IsObject(nd[K_document])
           /\ key \in DOMAIN nd[K_document].m /\ IsString(nd[K_document].m[key])
        THEN Some(nd[K_document].m[key].s)
        ELSE None

(***************************************************************************)
(* C23: the Worker that provisioning finds or creates is named by the      *)
(* string at document.name of the normalized workflow document when that   *)
(* value is present and a string, and by the ReusableWorkflow Runner's own *)
(* name in every other case (no document, no name, a name that is no       *)
(* string); its description is the string at document.summary, or empty.   *)
(***************************************************************************)
C23_WorkflowWorkerName ==
    \A s \in Sessions :
        \A i \in SentOps(s, "find_or_create_worker") :
            LET data == sent[s][i].data
                name == DocumentString(s, K_name)
                summary == DocumentString(s, K_summary)
            IN  /\ ResolvedToRunner(s, "ReusableWorkflow")
                /\ data.name = (IF IsSome(name) THEN name.v ELSE MatchedRunner(s).data.v.name)
                /\ data.description = (IF IsSome(summary) THEN summary.v ELSE <<>>)

\* a document whose name is an object: the worker is named after the runner
C23_Witness ==
    /\ pc["s1"] = "done"
    /\ req["s1"] = [name |-> Str_make_workflow, arguments |-> Some(Args_name_object)]
    /\ Len(sent["s1"]) = 1
    /\ sent["s1"][1].op = "find_or_create_worker"
    /\ sent["s1"][1].data.name = Str_make_workflow
    /\ sent["s1"][1].data.description = <<>>

\* a Runner of that name is registered
RunnerNamed(n) == \E r \in runners : r.data.v.name = n

(***************************************************************************)
(* C26: a Worker is shadowed by a Runner of the same name.  Where a Runner *)
(* named n exists, no call_tool(n, ..) enqueues against a Worker named n.  *)
(* In particular a Worker provisioned from a workflow document without a   *)
(* string document.name, and so named after the ReusableWorkflow Runner,   *)
(* is never invoked by a later call_tool with that name: each such call    *)
(* that succeeds runs the workflow creation again.                         *)
(***************************************************************************)
C26_RunnerShadowsWorker ==
    \A s \in Sessions :
        LET n == req[s].name
        IN  (Serving(s) /\ RunnerNamed(n)) =>
                /\ SentOps(s, "enqueue_with_json") = {}
                /\ ~MatchedIn(s, "worker")
                /\ (pc[s] = "done" /\ result[s].t = "ok" /\ CountNamed(workers, n) > 0
                        /\ MatchedRunnerType(s) = "ReusableWorkflow") =>
                    /\ result[s] = Ack
                    /\ Len(sent[s]) = 1
                    /\ sent[s][1].op = "find_or_create_worker"
                    /\ sent[s][1].data.name \in {n, Str_wf1}

\* the same request without a document name was acknowledged twice: the
\* worker named "make_workflow" of the first call was not invoked by the second
C26_Witness ==
    /\ pc["s1"] = "done"
    /\ req["s1"] = [name |-> Str_make_workflow, arguments |-> Some(Args_city)]
    /\ req["s1"] \in DOMAIN acks
    /\ acks[req["s1"]] = 2
    /\ CountNamed(workers, Str_make_workflow) = 1
    /\ sent["s1"][1].op = "find_or_create_worker"

\* the request with the name cut down to its prefix, and what call_tool
\* does with it once the Runner of that name is found
PrefixRequest(s) == [name |-> Match(s).key, arguments |-> req[s].arguments]
PrefixCall(s, enc) == call_tool_runner(PrefixRequest(s), MatchedRunner(s), None, enc)

(***************************************************************************)
(* C27: the federated-tool suffix is ignored for Runners that are not      *)
(* McpServer.  When "p___s" has no exact Runner match and p names a        *)
(* Runner, a standard Runner is enqueued with exactly the payload and      *)
(* settings call_tool(p, same arguments) would produce, and a              *)
(* ReusableWorkflow Runner runs the workflow creation exactly as           *)
(* call_tool(p, same arguments) would, for every suffix s.                 *)
(***************************************************************************)
C27_SuffixIgnored ==
    \A s \in Sessions :
        (Serving(s) /\ MatchedIn(s, "runner") /\ Match(s).how = "prefix"
            /\ MatchedRunnerType(s) /= "McpServer") =>
            /\ \A i \in SentOps(s, "setup_worker_and_enqueue_with_json") :
                LET e == sent[s][i]
                    p == PrefixCall(s, "ok").target
                IN  /\ e.runner_name = p.runner_name
                    /\ e.settings = p.settings
                    /\ e.arguments = p.arguments
            /\ \A i \in SentOps(s, "find_or_create_worker") :
                sent[s][i].data = PrefixCall(s, "ok").target.data
            /\ MatchedRunnerType(s) = "ReusableWorkflow" =>
                    \E enc \in {"ok", "err"} :
                        /\ pc[s] = "create_workflow" => target[s] = PrefixCall(s, enc).target
                        /\ (pc[s] = "done" /\ sent[s] = <<>>) => result[s] = PrefixCall(s, enc).result
            /\ MatchedRunnerType(s) /= "ReusableWorkflow" =>
                    /\ SentOps(s, "find_or_create_worker") = {}
                    /\ pc[s] = "done" => Len(sent[s]) = 1

\* "echo___forecast" reached the runner "echo": payload and settings are
\* those of a call of "echo"
C27_Witness ==
    /\ pc["s1"] = "done"
    /\ req["s1"] = [name |-> Str_echo_forecast, arguments |-> Some(Args_echo_settings)]
    /\ Len(sent["s1"]) = 1
    /\ sent["s1"][1].op = "setup_worker_and_enqueue_with_json"
    /\ sent["s1"][1].runner_name = Str_echo
    /\ sent["s1"][1].arguments = Obj_text_hi
    /\ sent["s1"][1].settings = Some(Obj_name_demo)

\* the invocation completed with a tool result or a protocol error
Completed(s) == pc[s] = "done" /\ result[s].t \in {"ok", "err"}

(***************************************************************************)
(* C29: call_tool is total over resolver outcomes.  For every outcome of   *)
(* the Runner lookup, a matched Runner whose id or whose data is absent    *)
(* included, the invocation completes with a tool result or a protocol     *)
(* error and never aborts the serving task.                                *)
(***************************************************************************)
C29_CallToolTotal ==
    \A s \in Sessions :
        /\ pc[s] /= "panicked"
        /\ pc[s] = "done" => Completed(s)

(***************************************************************************)
(* C30: the two implementations of the core agree on every input.          *)
(* ToolConverter::divide_names and combine_names equal the router's;       *)
(* prepare_runner_call_arguments and prepare_worker_call_arguments return  *)
(* the settings and payload that handle_runner_call and handle_worker_call *)
(* pass to the Job Engine; convert_functions_to_mcp_tools yields the tool  *)
(* list of the projection inside list_tools.                               *)
(***************************************************************************)
C30_ImplementationsAgree ==
    (IsSome(erouter) /\ IsSome(eother)) => erouter = eother

\* a listing with a tool server and a standard runner went through both
C30_Witness ==
    /\ ecase.kind = "tools"
    /\ ecase.functions = <<F_server1, F_cmd1>>
    /\ IsSome(erouter)
    /\ IsSome(eother)
    /\ Len(eother.v.tools) = 3
    /\ eother.v.tools[1].name = combine_names(Str_server1, Str_toolA)

=============================================================================
